---- MODULE Spec2Model ----
(***************************************************************************)
(* Lot matching of kalshi-dash: the FIFO matcher matchTradesFifo, the file  *)
(* pipeline processCSVData and the merge combineProcessedData.              *)
(*                                                                         *)
(* The repository holds two versions of processData.ts:                     *)
(*   "utils"  src/src/utils/processData.ts                                  *)
(*   "lib"    the module that follows line 13 of src/next.config.js         *)
(* They differ in the profit of a market exit, in the Exit_Cost field, in   *)
(* the ROI filter on the returned trades and in the credit-row filter.      *)
(* The variable variant says which of the two is running.                   *)
(*                                                                         *)
(* JavaScript numbers are modelled as exact fractions extended with         *)
(* Infinity, -Infinity and NaN (denominator 0); rounding of IEEE doubles is *)
(* not modelled.  Money is in dollars, prices in cents, as in the source.   *)
(***************************************************************************)
EXTENDS Integers, Sequences, FiniteSets, TLC

VARIABLES
    variant,          \* which processData.ts runs: "utils" or "lib"
    sortedTrades,     \* matchTradesFifo: the part of sortedTrades the for loop has consumed
    openPositions,    \* matchTradesFifo: Record<string, Position[]>
    completedTrades,  \* matchTradesFifo: MatchedTrade[]
    matchLog,         \* history: for each completed trade, its lot and its exit
    lotBorn,          \* history: for each lot of a ticker, the entry that opened it
    pc,               \* matchTradesFifo: "loop" while iterating, "done" after return
    returned,         \* matchTradesFifo: the value returned
    dataArray,        \* ProcessedData[]: the batches returned by processCSVData
    combined,         \* what combineProcessedData(dataArray) returned, or NoData
    input,            \* the arguments of the function under study, or NoData
    output,           \* what that function returned (or that it threw), or NoData
    pending,          \* handleFileUpload: the files of event.target.files not yet read
    error,            \* CsvUploader: the error state, one entry per appended message
    uploadedFiles,    \* CsvUploader: the uploadedFiles state (names of processed files)
    loading,          \* CsvUploader: the loading state
    handlers          \* the handleFileUpload invocations started so far, each with its locals

vars == <<variant, sortedTrades, openPositions, completedTrades, matchLog, lotBorn,
          pc, returned, dataArray, combined, input, output, pending, error,
          uploadedFiles, loading, handlers>>

matcherVars == <<sortedTrades, openPositions, completedTrades, matchLog, lotBorn, pc,
                 returned>>
mergeVars == <<dataArray, combined>>
pureVars == <<input, output>>
uploadVars == <<pending, error, uploadedFiles, loading, handlers>>
sessionVars == <<loading, handlers>>

-----------------------------------------------------------------------------
(* Bounds of the model *)

MaxTrades == 3
MaxContracts == 2
MaxFiles == 2
MaxDate == 2
MaxCalls == 2

Variants == {"utils", "lib"}
Tickers == {"A", "B"}
Directions == {"Yes", "No"}

-----------------------------------------------------------------------------
(* JavaScript numbers: n/d with d >= 0 in lowest terms;                     *)
(* 1/0 = Infinity, -1/0 = -Infinity, 0/0 = NaN.                             *)

Abs(x) == IF x < 0 THEN -x ELSE x
Sgn(x) == IF x > 0 THEN 1 ELSE IF x < 0 THEN -1 ELSE 0
Min(a, b) == IF a < b THEN a ELSE b

RECURSIVE Gcd(_, _)
Gcd(a, b) == IF b = 0 THEN a ELSE Gcd(b, a % b)

Num(n, d) ==
    IF d = 0 THEN [n |-> Sgn(n), d |-> 0]
    ELSE LET g == Gcd(Abs(n), Abs(d))
             s == Sgn(d)
         IN  [n |-> (s * n) \div g, d |-> (s * d) \div g]

FromInt(k) == [n |-> k, d |-> 1]
Cents(c) == Num(c, 100)
Zero == FromInt(0)
NaN == [n |-> 0, d |-> 0]

IsNaN(a) == a.d = 0 /\ a.n = 0
IsFinite(a) == a.d # 0

Neg(a) == [n |-> -a.n, d |-> a.d]
AbsR(a) == [n |-> Abs(a.n), d |-> a.d]
Add(a, b) ==
    IF a.d = 0 /\ b.d = 0
    THEN (IF a.n = b.n THEN a ELSE NaN)
    ELSE Num(a.n * b.d + b.n * a.d, a.d * b.d)
Sub(a, b) == Add(a, Neg(b))
Mul(a, b) == Num(a.n * b.n, a.d * b.d)
Div(a, b) ==
    IF a.d = 0 /\ b.d # 0
    THEN Num(a.n * (IF b.n < 0 THEN -1 ELSE 1), 0)
    ELSE Num(a.n * b.d, a.d * b.n)
Lt(a, b) ==
    /\ ~IsNaN(a)
    /\ ~IsNaN(b)
    /\ IF a.d = 0 /\ b.d = 0 THEN a.n < b.n ELSE a.n * b.d < b.n * a.d

RECURSIVE SumR(_)
SumR(s) == IF s = <<>> THEN Zero ELSE Add(Head(s), SumR(Tail(s)))

RECURSIVE SumInt(_)
SumInt(s) == IF s = <<>> THEN 0 ELSE Head(s) + SumInt(Tail(s))

Indices(n) == [k \in 1..n |-> k]

-----------------------------------------------------------------------------
(* Transactions (interface Trade) *)

Trade(ticker, type, direction, contracts, price, revenue, cost, profit, fees, date) ==
    [Ticker |-> ticker, Type |-> type, Direction |-> direction,
     Contracts |-> contracts, Average_Price |-> price,
     Realized_Revenue |-> revenue, Realized_Cost |-> cost,
     Realized_Profit |-> profit, Fees |-> fees, Date |-> date,
     Trade_Cost |-> Zero]

\* Faulty variant: a zero realized profit alone makes an entry.
IsEntryAnyType(trade) == trade.Realized_Profit = Zero

IsEntry(trade) == trade.Type = "trade" /\ trade.Realized_Profit = Zero
IsExit(trade) ==
    \/ trade.Type = "settlement"
    \/ (trade.Type = "trade" /\ trade.Realized_Profit # Zero)

calculateTradeCost(row) ==
    IF row.Type = "settlement" \/ (row.Type = "trade" /\ row.Realized_Profit # Zero)
    THEN AbsR(row.Realized_Cost)
    ELSE IF row.Type = "trade" /\ row.Realized_Profit = Zero
         THEN Mul(FromInt(row.Contracts), Div(FromInt(row.Average_Price), FromInt(100)))
         ELSE Zero

WithTradeCost(trade) == [trade EXCEPT !.Trade_Cost = calculateTradeCost(trade)]

-----------------------------------------------------------------------------
(* matchTradesFifo: one exit against the open lots of its ticker *)

\* Faulty variant: a sort that is not stable (elements of equal Date end up reversed).
RECURSIVE SortByDateUnstable(_)
SortByDateUnstable(trades) ==
    IF trades = <<>> THEN <<>>
    ELSE LET n == Len(trades)
             front == SortByDateUnstable(SubSeq(trades, 1, n - 1))
             last == trades[n]
             keep == SelectSeq(front, LAMBDA t : t.Date < last.Date)
             move == SelectSeq(front, LAMBDA t : t.Date >= last.Date)
         IN  keep \o <<last>> \o move

\* Faulty variant: the input is taken in the order given.
SortByDateNone(trades) == trades

\* [...trades].sort((a, b) => a.Date.getTime() - b.Date.getTime()): a stable
\* insertion of each element after the elements whose Date is not later.
RECURSIVE SortByDate(_)
SortByDate(trades) ==
    IF trades = <<>> THEN <<>>
    ELSE LET n == Len(trades)
             front == SortByDate(SubSeq(trades, 1, n - 1))
             last == trades[n]
             keep == SelectSeq(front, LAMBDA t : t.Date <= last.Date)
             move == SelectSeq(front, LAMBDA t : t.Date > last.Date)
         IN  keep \o <<last>> \o move

\* Faulty variant: every lot is labelled with the first instrument.
NewPositionOneTicker(trade) ==
    [ticker |-> "A",
     direction |-> trade.Direction,
     contracts |-> trade.Contracts,
     avg_price |-> trade.Average_Price,
     entry_date |-> trade.Date,
     entry_fee |-> trade.Fees,
     cost |-> trade.Trade_Cost,
     is_closed |-> FALSE]

NewPosition(trade) ==
    [ticker |-> trade.Ticker,
     direction |-> trade.Direction,
     contracts |-> trade.Contracts,
     avg_price |-> trade.Average_Price,
     entry_date |-> trade.Date,
     entry_fee |-> trade.Fees,
     cost |-> trade.Trade_Cost,
     is_closed |-> FALSE]

ExitPrice(trade) ==
    IF trade.Type = "settlement"
    THEN Mul(Div(trade.Realized_Revenue, FromInt(trade.Contracts)), FromInt(100))
    ELSE FromInt(trade.Average_Price)

\* Faulty variant: the exit's whole profit is used as the profit of one contract.
RealizedProfitUndivided(trade) == trade.Realized_Profit

RealizedProfitPerContract(trade) ==
    IF trade.Realized_Profit # Zero
    THEN Div(trade.Realized_Profit, FromInt(trade.Contracts))
    ELSE Zero

\* Faulty variant: only lots of the exit's own direction are candidates.
IsCandidateSameSide(p, direction) == ~p.is_closed /\ p.direction = direction

\* Faulty variant: the closed flag is not consulted.
IsCandidateIgnoringClosed(p, direction) ==
    \/ p.direction = direction
    \/ (p.direction = "Yes" /\ direction = "No")
    \/ (p.direction = "No" /\ direction = "Yes")

IsCandidate(p, direction) ==
    /\ ~p.is_closed
    /\ \/ p.direction = direction
       \/ (p.direction = "Yes" /\ direction = "No")
       \/ (p.direction = "No" /\ direction = "Yes")

\* Faulty variant: the candidates newest first (LIFO).
MatchingPositionsNewestFirst(positions, direction) ==
    LET n == Len(positions)
    IN  SelectSeq([k \in 1..n |-> n + 1 - k],
                  LAMBDA j : IsCandidate(positions[j], direction))

\* openPositions[ticker]?.filter(...): the candidates, as indices into the
\* ticker's list (the filter keeps references to the Position objects).
MatchingPositions(positions, direction) ==
    SelectSeq(Indices(Len(positions)), LAMBDA j : IsCandidate(positions[j], direction))

\* Faulty variant: the exit price is taken as a sale price of the lot's own side.
SameSideProfit(trade, position, contractsClosed) ==
    Div(FromInt(contractsClosed * (trade.Average_Price - position.avg_price)),
        FromInt(100))

\* Price-difference profit of a market exit against a lot.
ComplementProfit(trade, position, contractsClosed) ==
    Div(FromInt(contractsClosed * (100 - position.avg_price - trade.Average_Price)),
        FromInt(100))

Profit(v, trade, position, contractsClosed) ==
    IF trade.Type = "settlement"
    THEN Mul(RealizedProfitPerContract(trade), FromInt(contractsClosed))
    ELSE IF v = "utils"
         THEN IF position.direction # trade.Direction
              THEN ComplementProfit(trade, position, contractsClosed)
              ELSE Mul(RealizedProfitPerContract(trade), FromInt(contractsClosed))
         ELSE \* lib: the comparison is evaluated and its value discarded
              ComplementProfit(trade, position, contractsClosed)

FinalExitPrice(v, trade, position) ==
    IF trade.Type = "settlement"
    THEN ExitPrice(trade)
    ELSE IF v = "utils"
         THEN IF position.direction # trade.Direction
              THEN FromInt(100 - trade.Average_Price)
              ELSE FromInt(trade.Average_Price)
         ELSE Sub(FromInt(100), ExitPrice(trade))

\* Faulty variant: the whole exit is taken from the lot at hand (Math.min dropped).
ContractsClosedNoMin(contractsToClose, position) == contractsToClose

ContractsClosed(contractsToClose, position) == Min(contractsToClose, position.contracts)

\* Faulty variant: the exit fee is pro-rated over the exit's own contract count.
ProportionalExitFeeOfWhole(trade, contractsClosed, contractsToClose) ==
    Mul(trade.Fees, Div(FromInt(contractsClosed), FromInt(trade.Contracts)))

\* exitFee * (contractsClosed / contractsToClose)
ProportionalExitFee(trade, contractsClosed, contractsToClose) ==
    Mul(trade.Fees, Div(FromInt(contractsClosed), FromInt(contractsToClose)))

MatchedTrade(v, trade, position, contractsToClose) ==
    LET contractsClosed == ContractsClosed(contractsToClose, position)
        profit == Profit(v, trade, position, contractsClosed)
        share == Div(FromInt(contractsClosed), FromInt(position.contracts))
        entryCost == Mul(position.cost, share)
        proportionalEntryFee == Mul(position.entry_fee, share)
        proportionalExitFee ==
            ProportionalExitFee(trade, contractsClosed, contractsToClose)
        totalFees == Add(proportionalEntryFee, proportionalExitFee)
        common ==
            [Ticker |-> position.ticker,
             Entry_Date |-> position.entry_date,
             Exit_Date |-> trade.Date,
             Entry_Direction |-> position.direction,
             Contracts |-> contractsClosed,
             Entry_Cost |-> entryCost,
             Realized_Profit |-> profit,
             Net_Profit |-> Sub(profit, totalFees),
             Holding_Period_Days |->
                 Div(FromInt(trade.Date - position.entry_date), FromInt(24 * 3600 * 1000)),
             ROI |-> Div(Sub(profit, totalFees), entryCost),
             Entry_Fee |-> proportionalEntryFee,
             Exit_Fee |-> proportionalExitFee,
             Total_Fees |-> totalFees,
             Entry_Price |-> position.avg_price,
             Exit_Price |-> FinalExitPrice(v, trade, position)]
    IN  IF v = "utils"
        THEN common @@
             [Exit_Direction |-> trade.Type,
              Exit_Cost |-> Mul(AbsR(trade.Realized_Cost),
                                Div(FromInt(contractsClosed), FromInt(trade.Contracts)))]
        ELSE common @@ [Exit_Type |-> trade.Type]

\* Faulty variant: a lot is closed only when its count goes below zero.
UpdatePositionLateClose(position, contractsClosed) ==
    LET left == position.contracts - contractsClosed
    IN  [position EXCEPT !.contracts = left,
                         !.is_closed = IF left < 0 THEN TRUE ELSE @]

\* Faulty variant: the lot is marked closed but its count is left as it was.
UpdatePositionKeepCount(position, contractsClosed) ==
    [position EXCEPT !.is_closed = IF position.contracts - contractsClosed <= 0
                                   THEN TRUE ELSE @]

UpdatePosition(position, contractsClosed) ==
    LET left == position.contracts - contractsClosed
    IN  [position EXCEPT !.contracts = left,
                         !.is_closed = IF left <= 0 THEN TRUE ELSE @]

\* for (const position of matchingPositions) { ... }
\* acc = [positions, contractsToClose, out, lots]
RECURSIVE CloseLots(_, _, _, _, _)
CloseLots(v, trade, cand, k, acc) ==
    IF k > Len(cand) \/ acc.contractsToClose <= 0 THEN acc
    ELSE LET j == cand[k]
             position == acc.positions[j]
             contractsClosed == ContractsClosed(acc.contractsToClose, position)
         IN  CloseLots(v, trade, cand, k + 1,
                 [positions |-> [acc.positions EXCEPT
                                    ![j] = UpdatePosition(position, contractsClosed)],
                  contractsToClose |-> acc.contractsToClose - contractsClosed,
                  out |-> Append(acc.out,
                                 MatchedTrade(v, trade, position, acc.contractsToClose)),
                  lots |-> Append(acc.lots, j)])

\* The body of "for (const trade of sortedTrades)" on the state
\* st = [open, completed, log, born]; n is the index of trade in sortedTrades.
\* log and born are history: log[i] names the lot (its index in the ticker's
\* list) and the exit (its index in sortedTrades) of completed[i]; born[t][j]
\* is the index in sortedTrades of the entry that opened lot j of ticker t.
ProcessTrade(v, st, trade, n) ==
    LET positions == st.open[trade.Ticker]
    IN  IF IsEntry(trade)
        THEN [st EXCEPT !.open[trade.Ticker] = Append(positions, NewPosition(trade)),
                        !.born[trade.Ticker] = Append(@, n)]
        ELSE IF IsExit(trade)
        THEN LET cand == MatchingPositions(positions, trade.Direction)
             IN  IF Len(cand) = 0 THEN st
                 ELSE LET r == CloseLots(v, trade, cand, 1,
                                   [positions |-> positions,
                                    contractsToClose |-> trade.Contracts,
                                    out |-> <<>>, lots |-> <<>>])
                      IN  [open |-> [st.open EXCEPT ![trade.Ticker] = r.positions],
                           completed |-> st.completed \o r.out,
                           log |-> st.log \o
                                   [i \in 1..Len(r.lots) |-> [lot |-> r.lots[i], exit |-> n]],
                           born |-> st.born]
        ELSE st

\* Faulty variant: credit rows are kept in both versions.
KeepsRowWithCredit(v, row) == row.Ticker # ""

\* processCSVData: rawData.filter(row => row && row.Ticker)                  (utils)
\*                 rawData.filter(row => row && row.Ticker && row.Type !== 'credit') (lib)
KeepsRow(v, row) == row.Ticker # "" /\ (v = "lib" => row.Type # "credit")

\* openPositions[ticker] = openPositions[ticker].filter(p => !p.is_closed)
CleanUp(open) == [t \in DOMAIN open |-> SelectSeq(open[t], LAMBDA p : ~p.is_closed)]

\* return completedTrades.filter(t => Math.abs(t.ROI!) < 10)   (utils)
\* return completedTrades                                        (lib)
ReasonableROI(t) == Lt(AbsR(t.ROI), FromInt(10))
Returned(v, completed) ==
    IF v = "utils" THEN SelectSeq(completed, ReasonableROI) ELSE completed

EmptyState ==
    [open |-> [t \in Tickers |-> <<>>], completed |-> <<>>, log |-> <<>>,
     born |-> [t \in Tickers |-> <<>>]]

RECURSIVE RunLoop(_, _, _, _)
RunLoop(v, st, sorted, n) ==
    IF n > Len(sorted) THEN st
    ELSE RunLoop(v, ProcessTrade(v, st, sorted[n], n), sorted, n + 1)

SortedWithCost(trades) ==
    LET s == SortByDate(trades) IN [i \in 1..Len(s) |-> WithTradeCost(s[i])]

matchTradesFifo(v, trades) ==
    Returned(v, RunLoop(v, EmptyState, SortedWithCost(trades), 1).completed)

-----------------------------------------------------------------------------------------------------------------------------------------------------
(* The transactions the model feeds to the matcher.  Entries have zero      *)
(* realized fields; exits carry Realized_Revenue = Realized_Cost +          *)
(* Realized_Profit.  Contract counts range over 0..MaxContracts.  To keep   *)
(* the input set small the zero count is tried on Yes entries and on Yes    *)
(* settlements, the cheap entry price on a Yes entry of one contract, No    *)
(* market exits have one contract, settlements are Yes settlements (the     *)
(* candidate filter reads the direction of a market exit and of a           *)
(* settlement alike), and ticker B has one entry and one settlement: it is  *)
(* there to observe what an exit of A does to the lots of B.  A credit row  *)
(* is a row of another Type that carries a Ticker.                          *)

CheapPrice == {5}
MidPrice == {30}
ExitPrices == {55}
ExitProfits == {Cents(60)}
FeeSet == {Cents(2)}

ExitCost(c) == Cents(30 * c)

Entry(t, dir, c, p, d) ==
    Trade(t, "trade", dir, c, p, Zero, Zero, Zero, CHOOSE f \in FeeSet : TRUE, d)

MarketExit(t, dir, c, p, pr, d) ==
    Trade(t, "trade", dir, c, p, Add(ExitCost(c), pr), ExitCost(c), pr,
          CHOOSE f \in FeeSet : TRUE, d)

Settlement(t, dir, c, pr, d) ==
    Trade(t, "settlement", dir, c, 0, Add(ExitCost(c), pr), ExitCost(c), pr,
          CHOOSE f \in FeeSet : TRUE, d)

EntryRows(d) ==
    {Entry("A", "Yes", c, p, d) : c \in 0..MaxContracts, p \in MidPrice}
    \cup {Entry("A", "Yes", 1, p, d) : p \in CheapPrice}
    \cup {Entry("A", "No", c, p, d) : c \in 1..MaxContracts, p \in MidPrice}
    \cup {Entry("B", "Yes", 1, p, d) : p \in MidPrice}

MarketExitRows(d) ==
    {MarketExit("A", "Yes", c, p, pr, d) :
        c \in 1..MaxContracts, p \in ExitPrices, pr \in ExitProfits}
    \cup {MarketExit("A", "No", 1, p, pr, d) : p \in ExitPrices, pr \in ExitProfits}

SettlementRows(d) ==
    {Settlement("A", "Yes", c, pr, d) : c \in 0..MaxContracts, pr \in ExitProfits}
    \cup {Settlement("A", "Yes", 1, Zero, d)}
    \cup {Settlement("B", "Yes", 1, pr, d) : pr \in ExitProfits}

CreditRows(d) ==
    {Trade("A", "credit", "Yes", 1, 0, Zero, Zero, Zero, Zero, d)}

Rows(d) == EntryRows(d) \cup MarketExitRows(d) \cup SettlementRows(d) \cup CreditRows(d)

-----
(* Spec: the for loop of matchTradesFifo, one transaction per step.  The    *)
(* loop runs over sortedTrades, so the transactions arrive in ascending     *)
(* Date; here each has a later Date than the one before.  They are rows     *)
(* that processCSVData of the running version lets through.                 *)

NoData == [none |-> TRUE]

Current ==
    [open |-> openPositions, completed |-> completedTrades, log |-> matchLog,
     born |-> lotBorn]

Init ==
    /\ variant \in Variants
    /\ sortedTrades = <<>>
    /\ openPositions = [t \in Tickers |-> <<>>]
    /\ completedTrades = <<>>
    /\ matchLog = <<>>
    /\ lotBorn = [t \in Tickers |-> <<>>]
    /\ pc = "loop"
    /\ returned = <<>>
    /\ dataArray = <<>>
    /\ combined = NoData
    /\ input = NoData
    /\ output = NoData
    /\ pending = <<>>
    /\ error = <<>>
    /\ uploadedFiles = <<>>
    /\ loading = FALSE
    /\ handlers = <<>>

Iterate(trade) ==
    LET n == Len(sortedTrades) + 1
        st == ProcessTrade(variant, Current, trade, n)
    IN  /\ sortedTrades' = Append(sortedTrades, trade)
        /\ openPositions' = st.open
        /\ completedTrades' = st.completed
        /\ matchLog' = st.log
        /\ lotBorn' = st.born
        /\ UNCHANGED <<variant, pc, returned, dataArray, combined, pureVars, uploadVars>>

NextTrades ==
    IF pc = "loop" /\ Len(sortedTrades) < MaxTrades
    THEN {WithTradeCost(row) :
             row \in {r \in Rows(Len(sortedTrades) + 1) : KeepsRow(variant, r)}}
    ELSE {}

HasCandidate(trade) ==
    Len(MatchingPositions(openPositions[trade.Ticker], trade.Direction)) > 0

ProcessEntry ==
    \E trade \in NextTrades : IsEntry(trade) /\ Iterate(trade)

ProcessExit ==
    \E trade \in NextTrades : IsExit(trade) /\ HasCandidate(trade) /\ Iterate(trade)

UnmatchedExit ==
    \E trade \in NextTrades : IsExit(trade) /\ ~HasCandidate(trade) /\ Iterate(trade)

OtherType ==
    \E trade \in NextTrades : ~IsEntry(trade) /\ ~IsExit(trade) /\ Iterate(trade)

Return ==
    /\ pc = "loop"
    /\ pc' = "done"
    /\ openPositions' = CleanUp(openPositions)
    /\ returned' = Returned(variant, completedTrades)
    /\ UNCHANGED <<variant, sortedTrades, completedTrades, matchLog, lotBorn, dataArray,
                   combined, pureVars, uploadVars>>

Next ==
    \/ ProcessEntry
    \/ ProcessExit
    \/ UnmatchedExit
    \/ OtherType
    \/ Return

Spec == Init /\ [][Next]_vars

-----------------------------------------------------------------------------
(* processCSVData and combineProcessedData.  A file is the sequence of its  *)
(* rows after coercion (parseFloat, cleanMoney, parseDate); its header has  *)
(* the required columns.  Of ProcessedData the fields trades and            *)
(* matchedTrades are modelled.                                              *)

Threw(message) == [error |-> message]
Failed(result) == "error" \in DOMAIN result

\* matchTradesFifo writes Trade_Cost into the Trade objects it is given: the
\* sorted copy shares them with the caller's array.
AfterMatch(trades) == [i \in 1..Len(trades) |-> WithTradeCost(trades[i])]

\* calculateBasicStats: the fields totalTrades, totalFees, totalProfit, winRate
\* and settledWinRate of its result.
Gt(a, b) == Lt(b, a)
CountPositive(seq, field) == Len(SelectSeq(seq, LAMBDA t : Gt(t[field], Zero)))
Ratio(k, n) == Div(FromInt(k), FromInt(n))

\* n > 0 ? k / n : 0
GuardedRatio(k, n) == IF n > 0 THEN Ratio(k, n) ELSE Zero

\* trades.reduce((sum, trade) => sum + (trade.Fees || 0), 0)
TotalFees(trades) ==
    SumR([i \in 1..Len(trades) |->
             IF IsNaN(trades[i].Fees) THEN Zero ELSE trades[i].Fees])

calculateBasicStats(v, trades, matchedTrades) ==
    IF v = "utils"
    THEN LET settledTrades ==
                 SelectSeq(matchedTrades, LAMBDA t : t.Exit_Direction = "settlement")
         IN  [totalTrades |-> Len(trades),
              totalFees |-> TotalFees(trades),
              totalProfit |->
                  SumR([i \in 1..Len(matchedTrades) |-> matchedTrades[i].Net_Profit]),
              winRate |->
                  Ratio(CountPositive(matchedTrades, "Net_Profit"),
                        Len(matchedTrades)),
              settledWinRate |->
                  GuardedRatio(CountPositive(settledTrades, "Net_Profit"),
                               Len(settledTrades))]
    ELSE LET exitTrades == SelectSeq(trades, LAMBDA t : Gt(t.Realized_Revenue, Zero))
             settledTrades == SelectSeq(trades, LAMBDA t : t.Type = "settlement")
         IN  [totalTrades |-> Len(trades),
              totalFees |-> TotalFees(trades),
              totalProfit |->
                  SumR([i \in 1..Len(trades) |-> trades[i].Realized_Profit]),
              winRate |->
                  GuardedRatio(CountPositive(exitTrades, "Realized_Profit"),
                               Len(exitTrades)),
              settledWinRate |->
                  GuardedRatio(CountPositive(settledTrades, "Realized_Profit"),
                               Len(settledTrades))]

RequiredColumns ==
    <<"Ticker", "Type", "Direction", "Contracts", "Average_Price", "Created">>

\* Faulty variant: every required column is reported missing.
MissingColumnsAll(fields) == RequiredColumns

\* requiredColumns.filter(col => !headers.includes(col))
MissingColumns(fields) == SelectSeq(RequiredColumns, LAMBDA col : col \notin fields)

ThrewMissing(columns) ==
    [error |-> "Invalid CSV format: Missing required columns", columns |-> columns]

processCSVData(v, data) ==
    IF Len(data) = 0 THEN Threw("Invalid CSV format: No data found")
    ELSE LET trades == SelectSeq(data, LAMBDA row : KeepsRow(v, row))
         IN  IF Len(trades) = 0 THEN Threw("No valid trades found in the CSV file")
             ELSE LET matchedTrades == matchTradesFifo(v, trades)
                  IN  [trades |-> AfterMatch(trades),
                       matchedTrades |-> matchedTrades,
                       basicStats |->
                           calculateBasicStats(v, AfterMatch(trades), matchedTrades)]

\* processCSVData on what Papa.parse hands over: results.meta.fields and
\* results.data.  The header check comes after the check for data.
processCSVResults(v, results) ==
    IF Len(results.data) = 0 THEN Threw("Invalid CSV format: No data found")
    ELSE IF Len(MissingColumns(results.fields)) > 0
         THEN ThrewMissing(MissingColumns(results.fields))
         ELSE processCSVData(v, results.data)

RECURSIVE AllTrades(_)
AllTrades(dataArray_) ==
    IF dataArray_ = <<>> THEN <<>>
    ELSE AllTrades(SubSeq(dataArray_, 1, Len(dataArray_) - 1))
         \o dataArray_[Len(dataArray_)].trades

\* Faulty variant: the batches' own matched trades are concatenated, nothing is
\* matched again.
RECURSIVE OwnMatches(_)
OwnMatches(dataArray_) ==
    IF dataArray_ = <<>> THEN <<>>
    ELSE OwnMatches(SubSeq(dataArray_, 1, Len(dataArray_) - 1))
         \o dataArray_[Len(dataArray_)].matchedTrades
CombineByUnion(v, dataArray_) ==
    [trades |-> AfterMatch(SortByDate(AllTrades(dataArray_))),
     matchedTrades |-> OwnMatches(dataArray_),
     basicStats |-> calculateBasicStats(v, AfterMatch(SortByDate(AllTrades(dataArray_))),
                                        OwnMatches(dataArray_))]

combineProcessedData(v, dataArray_) ==
    LET allTrades == AllTrades(dataArray_)
        sorted == SortByDate(allTrades)
        matchedTrades == matchTradesFifo(v, sorted)
    IN  [trades |-> AfterMatch(sorted),
         matchedTrades |-> matchedTrades,
         basicStats |-> calculateBasicStats(v, AfterMatch(sorted), matchedTrades)]

-----------------------------------------------------------------------------
(* MergeSpec: files are processed one by one into dataArray, then merged.   *)
(* Rows of a file come in any order of Date, equal Dates included.          *)

MergeRows ==
    UNION {{Entry("A", "Yes", 1, p, d) : p \in MidPrice \cup CheapPrice}
           \cup {Settlement("A", "Yes", 1, pr, d) : pr \in ExitProfits}
           : d \in 1..MaxDate}

RowsSoFar == Len(AllTrades(dataArray))

FilesOfLength(n) == [1..n -> MergeRows]

MergeInit ==
    /\ variant \in Variants
    /\ sortedTrades = <<>>
    /\ openPositions = [t \in Tickers |-> <<>>]
    /\ completedTrades = <<>>
    /\ matchLog = <<>>
    /\ lotBorn = [t \in Tickers |-> <<>>]
    /\ pc = "idle"
    /\ returned = <<>>
    /\ dataArray = <<>>
    /\ combined = NoData
    /\ input = NoData
    /\ output = NoData
    /\ pending = <<>>
    /\ error = <<>>
    /\ uploadedFiles = <<>>
    /\ loading = FALSE
    /\ handlers = <<>>

ProcessFile ==
    /\ combined = NoData
    /\ Len(dataArray) < MaxFiles
    /\ \E n \in 1..(MaxTrades - RowsSoFar) : \E data \in FilesOfLength(n) :
          LET processed == processCSVData(variant, data)
          IN  /\ ~Failed(processed)
              /\ dataArray' = Append(dataArray, processed)
    /\ UNCHANGED <<variant, matcherVars, combined, pureVars, uploadVars>>

Combine ==
    /\ combined = NoData
    /\ Len(dataArray) > 0
    /\ combined' = combineProcessedData(variant, dataArray)
    /\ UNCHANGED <<variant, matcherVars, dataArray, pureVars, uploadVars>>

MergeNext ==
    \/ ProcessFile
    \/ Combine

MergeSpec == MergeInit /\ [][MergeNext]_vars

-----------------------------------------------------------------------------
(* Reading the history *)

Done == pc = "done"
NumCompleted == Len(completedTrades)

\* the exit transaction and the entry transaction of completed trade i
ExitOf(i) == sortedTrades[matchLog[i].exit]
EntryOf(i) == sortedTrades[lotBorn[completedTrades[i].Ticker][matchLog[i].lot]]

\* the completed trades (as indices) taken from lot j of ticker t
FromLot(t, j) ==
    SelectSeq(Indices(NumCompleted),
              LAMBDA i : completedTrades[i].Ticker = t /\ matchLog[i].lot = j)

\* the completed trades (as indices) produced by the exit sortedTrades[n]
FromExit(n) == SelectSeq(Indices(NumCompleted), LAMBDA i : matchLog[i].exit = n)

ContractsOf(idx) == SumInt([k \in 1..Len(idx) |-> completedTrades[idx[k]].Contracts])
ProfitOf(idx) == SumR([k \in 1..Len(idx) |-> completedTrades[idx[k]].Realized_Profit])

IsSettlementRow(t) == t.Type = "settlement"
IsMarketExitRow(t) == t.Type = "trade" /\ t.Realized_Profit # [n |-> 0, d |-> 1]
IsEntryRow(t) == t.Type = "trade" /\ t.Realized_Profit = [n |-> 0, d |-> 1]
IsExitRow(t) == IsSettlementRow(t) \/ IsMarketExitRow(t)

-----------------------------------------------------------------------------
(* C1 - Conservation: for every entry lot, the Contracts of the matched     *)
(* trades produced from it never sum to more than the lot's original        *)
(* contract count.                                                          *)
C1_Conservation ==
    \A t \in Tickers : \A j \in 1..Len(lotBorn[t]) :
        ContractsOf(FromLot(t, j)) <= sortedTrades[lotBorn[t][j]].Contracts

\* a lot of at least two contracts closed completely by two exits
C1_Witness ==
    \E t \in Tickers : \E j \in 1..Len(lotBorn[t]) :
        /\ Len(FromLot(t, j)) >= 2
        /\ sortedTrades[lotBorn[t][j]].Contracts >= 2
        /\ ContractsOf(FromLot(t, j)) = sortedTrades[lotBorn[t][j]].Contracts

(* C2 - FIFO ordering: with two same-direction entries of one instrument at *)
(* t1 < t2 and a single later exit of size <= c1, the only matched trade    *)
(* has Entry_Date = t1; and a lot from which an exit has taken contracts    *)
(* has no older lot of its instrument with contracts left.                  *)
C2_Scenario ==
    /\ Len(sortedTrades) = 3
    /\ IsEntryRow(sortedTrades[1])
    /\ IsEntryRow(sortedTrades[2])
    /\ IsExitRow(sortedTrades[3])
    /\ sortedTrades[1].Ticker = sortedTrades[2].Ticker
    /\ sortedTrades[1].Ticker = sortedTrades[3].Ticker
    /\ sortedTrades[1].Direction = sortedTrades[2].Direction
    /\ sortedTrades[1].Date < sortedTrades[2].Date
    /\ sortedTrades[2].Date < sortedTrades[3].Date
    /\ sortedTrades[3].Contracts <= sortedTrades[1].Contracts

C2_FifoOrdering ==
    /\ C2_Scenario =>
          /\ NumCompleted <= 1
          /\ sortedTrades[3].Contracts >= 1 => NumCompleted = 1
          /\ \A i \in 1..NumCompleted :
                completedTrades[i].Entry_Date = sortedTrades[1].Date
    /\ ~Done =>
          \A i \in 1..NumCompleted : \A k \in 1..(matchLog[i].lot - 1) :
              LET older == openPositions[completedTrades[i].Ticker][k]
              IN  older.is_closed /\ older.contracts = 0

\* the scenario, with the exit matched against the older lot and the newer
\* lot untouched
C2_Witness ==
    /\ C2_Scenario
    /\ ~Done
    /\ NumCompleted = 1
    /\ sortedTrades[2].Contracts >= 1
    /\ openPositions[sortedTrades[1].Ticker][2].contracts = sortedTrades[2].Contracts

(* C3 - Settlement profit split, as claimed: every matched trade of a       *)
(* settlement has profit (Realized_Profit / exit contracts) x contracts     *)
(* closed, and the RETURNED trades of a fully matched settlement sum to the *)
(* settlement's Realized_Profit.                                            *)
SplitProfit(i) ==
    Mul(Div(ExitOf(i).Realized_Profit, FromInt(ExitOf(i).Contracts)),
        FromInt(completedTrades[i].Contracts))

FullyMatched(n) ==
    /\ sortedTrades[n].Contracts >= 1
    /\ ContractsOf(FromExit(n)) = sortedTrades[n].Contracts

\* the returned trades of the exit sortedTrades[n]: Dates are distinct in Spec
ReturnedFor(n) ==
    SelectSeq(returned,
              LAMBDA m : m.Exit_Date = sortedTrades[n].Date
                         /\ m.Ticker = sortedTrades[n].Ticker)
ReturnedProfit(n) ==
    SumR([k \in 1..Len(ReturnedFor(n)) |-> ReturnedFor(n)[k].Realized_Profit])

AllReasonable(n) ==
    \A k \in 1..Len(FromExit(n)) :
        Lt(AbsR(completedTrades[FromExit(n)[k]].ROI), FromInt(10))

C3_PerTrade ==
    \A i \in 1..NumCompleted :
        IsSettlementRow(ExitOf(i)) => completedTrades[i].Realized_Profit = SplitProfit(i)

C3_AsClaimed ==
    /\ C3_PerTrade
    /\ Done =>
          \A n \in 1..Len(sortedTrades) :
              (IsSettlementRow(sortedTrades[n]) /\ FullyMatched(n)) =>
                  ReturnedProfit(n) = sortedTrades[n].Realized_Profit

(* C3 amended: every matched trade of a settlement has profit               *)
(* (Realized_Profit / exit contracts) x contracts closed; the trades the    *)
(* matcher PRODUCES for a fully matched settlement sum to its               *)
(* Realized_Profit; the returned ones do when none of them is removed by    *)
(* the |ROI| < 10 filter of utils/processData.ts (always in the lib         *)
(* version, which has no filter).                                           *)
C3_SettlementSplit ==
    /\ C3_PerTrade
    /\ \A n \in 1..Len(sortedTrades) :
          (IsSettlementRow(sortedTrades[n]) /\ FullyMatched(n)) =>
              /\ ProfitOf(FromExit(n)) = sortedTrades[n].Realized_Profit
              /\ (Done /\ (variant = "lib" \/ AllReasonable(n))) =>
                    ReturnedProfit(n) = sortedTrades[n].Realized_Profit

\* a settlement of profit 0.60 split over two lots, both trades returned
C3_Witness ==
    /\ Done
    /\ \E n \in 1..Len(sortedTrades) :
          /\ IsSettlementRow(sortedTrades[n])
          /\ FullyMatched(n)
          /\ Len(FromExit(n)) = 2
          /\ Len(ReturnedFor(n)) = 2
          /\ sortedTrades[n].Realized_Profit = Cents(60)
          /\ ReturnedFor(n)[1].Realized_Profit = Cents(30)
          /\ ReturnedFor(n)[2].Realized_Profit = Cents(30)

(* C4 - Opposite-direction market close: a non-settlement exit that closes  *)
(* a lot of the opposite direction gives profit = contracts closed x        *)
(* (100 - entry price - exit average price) / 100 and                       *)
(* Exit_Price = 100 - exit average price.                                   *)
C4_OppositeClose ==
    \A i \in 1..NumCompleted :
        (~IsSettlementRow(ExitOf(i))
         /\ completedTrades[i].Entry_Direction # ExitOf(i).Direction) =>
            /\ completedTrades[i].Realized_Profit =
                   Num(completedTrades[i].Contracts
                         * (100 - completedTrades[i].Entry_Price
                                - ExitOf(i).Average_Price), 100)
            /\ completedTrades[i].Exit_Price = FromInt(100 - ExitOf(i).Average_Price)

\* a Yes lot entered at 30 closed by a No exit at 55: 0.15 a contract
C4_Witness ==
    \E i \in 1..NumCompleted :
        /\ ~IsSettlementRow(ExitOf(i))
        /\ completedTrades[i].Entry_Direction = "Yes"
        /\ ExitOf(i).Direction = "No"
        /\ completedTrades[i].Entry_Price = 30
        /\ ExitOf(i).Average_Price = 55
        /\ completedTrades[i].Contracts >= 1
        /\ completedTrades[i].Realized_Profit =
               Mul(FromInt(completedTrades[i].Contracts), Cents(15))
        /\ completedTrades[i].Exit_Price = FromInt(45)

(* C5 - Same-direction market close: a non-settlement exit that closes a    *)
(* lot of its own direction gives profit = (Realized_Profit / exit          *)
(* contracts) x contracts closed and Exit_Price = the exit's Average_Price. *)
C5_SameDirectionClose ==
    \A i \in 1..NumCompleted :
        (~IsSettlementRow(ExitOf(i))
         /\ completedTrades[i].Entry_Direction = ExitOf(i).Direction) =>
            /\ completedTrades[i].Realized_Profit = SplitProfit(i)
            /\ completedTrades[i].Exit_Price = FromInt(ExitOf(i).Average_Price)

-----------------------------------------------------------------------------
(* One iteration of the loop, seen from outside: the transaction taken and  *)
(* what it found.                                                           *)

Took == Len(sortedTrades') = Len(sortedTrades) + 1
Taken == sortedTrades'[Len(sortedTrades')]

UnclosedLots(t) ==
    SelectSeq(Indices(Len(openPositions[t])), LAMBDA j : ~openPositions[t][j].is_closed)
OpenContracts(t) ==
    SumInt([k \in 1..Len(UnclosedLots(t)) |-> openPositions[t][UnclosedLots(t)[k]].contracts])

NewTrades == SubSeq(completedTrades', NumCompleted + 1, Len(completedTrades'))
NewContracts == SumInt([k \in 1..Len(NewTrades) |-> NewTrades[k].Contracts])

OpensLot(trade) ==
    /\ Len(openPositions'[trade.Ticker]) = Len(openPositions[trade.Ticker]) + 1
    /\ SubSeq(openPositions'[trade.Ticker], 1, Len(openPositions[trade.Ticker]))
          = openPositions[trade.Ticker]
    /\ LET lot == openPositions'[trade.Ticker][Len(openPositions'[trade.Ticker])]
       IN  lot.contracts = trade.Contracts /\ ~lot.is_closed
    /\ \A t \in Tickers \ {trade.Ticker} : openPositions'[t] = openPositions[t]
    /\ completedTrades' = completedTrades

NoNewLot == \A t \in Tickers : Len(openPositions'[t]) = Len(openPositions[t])

(* C6 - Unmatched-exit tolerance: an exit for an instrument with no         *)
(* unclosed lot produces no matched trade, leaves every lot of every        *)
(* instrument unchanged, and the loop goes on.                              *)
C6_Step ==
    (Took /\ IsExitRow(Taken) /\ Len(UnclosedLots(Taken.Ticker)) = 0) =>
        /\ completedTrades' = completedTrades
        /\ openPositions' = openPositions
        /\ pc' = "loop"

C6_UnmatchedExit == [][C6_Step]_vars

\* an exit of A met no lot of A while a lot of B was open; the matcher then
\* went on to open a lot of A
C6_Witness ==
    /\ Len(sortedTrades) = 3
    /\ IsEntryRow(sortedTrades[1]) /\ sortedTrades[1].Ticker = "B"
    /\ IsExitRow(sortedTrades[2]) /\ sortedTrades[2].Ticker = "A"
    /\ IsEntryRow(sortedTrades[3]) /\ sortedTrades[3].Ticker = "A"
    /\ NumCompleted = 0
    /\ Len(openPositions["B"]) = 1
    /\ openPositions["B"][1].contracts = sortedTrades[1].Contracts
    /\ Len(openPositions["A"]) = 1

(* C7 - Over-sized exit: an exit whose count exceeds the contracts open in  *)
(* the lots of its instrument closes all of them, the Contracts of its      *)
(* matched trades sum to what was open (less than the exit's count), the    *)
(* loop goes on, and an entry processed later opens a lot with its own full *)
(* count.                                                                   *)
C7_Step ==
    /\ (Took /\ IsExitRow(Taken) /\ Len(UnclosedLots(Taken.Ticker)) > 0
        /\ Taken.Contracts > OpenContracts(Taken.Ticker)) =>
            /\ \A j \in 1..Len(openPositions'[Taken.Ticker]) :
                  /\ openPositions'[Taken.Ticker][j].is_closed
                  /\ openPositions'[Taken.Ticker][j].contracts = 0
            /\ NewContracts = OpenContracts(Taken.Ticker)
            /\ NewContracts < Taken.Contracts
            /\ Len(NewTrades) = Len(UnclosedLots(Taken.Ticker))
            /\ NoNewLot
            /\ pc' = "loop"
    /\ (Took /\ IsEntryRow(Taken)) => OpensLot(Taken)

C7_OversizedExit == [][C7_Step]_vars

\* a lot of one contract met an exit of two, and the entry after it opened a
\* lot with its full count
C7_Witness ==
    /\ Len(sortedTrades) = 3
    /\ IsEntryRow(sortedTrades[1]) /\ sortedTrades[1].Contracts = 1
    /\ IsExitRow(sortedTrades[2]) /\ sortedTrades[2].Contracts = 2
    /\ IsEntryRow(sortedTrades[3]) /\ sortedTrades[3].Contracts = 2
    /\ sortedTrades[1].Ticker = "A"
    /\ sortedTrades[2].Ticker = "A"
    /\ sortedTrades[3].Ticker = "A"
    /\ ~Done
    /\ NumCompleted = 1
    /\ completedTrades[1].Contracts = 1
    /\ openPositions["A"][1].is_closed
    /\ openPositions["A"][2].contracts = 2
    /\ ~openPositions["A"][2].is_closed

(* C10 - Entry/exit classification, as claimed: a transaction is an entry   *)
(* iff Type = trade and Realized_Profit = 0 (a lot is opened, no matched    *)
(* trade) and an exit in EVERY other case (no lot is opened; it closes      *)
(* contracts when the instrument has some open).                            *)
ActsAsExit(trade) ==
    /\ NoNewLot
    /\ (trade.Contracts >= 1 /\ OpenContracts(trade.Ticker) >= 1) =>
          /\ Len(NewTrades) >= 1
          /\ NewContracts = Min(trade.Contracts, OpenContracts(trade.Ticker))
    /\ Len(UnclosedLots(trade.Ticker)) = 0 =>
          (completedTrades' = completedTrades /\ openPositions' = openPositions)

C10_AsClaimedStep ==
    Took => IF IsEntryRow(Taken) THEN OpensLot(Taken) ELSE ActsAsExit(Taken)

C10_Step ==
    Took =>
        /\ IsEntryRow(Taken) => OpensLot(Taken)
        /\ IsExitRow(Taken) => ActsAsExit(Taken)
        /\ (~IsEntryRow(Taken) /\ ~IsExitRow(Taken)) =>
              (completedTrades' = completedTrades /\ openPositions' = openPositions)

-----------------------------------------------------------------------------
(* Reading the batches *)

Merged == combined # NoData
Count(seq, x) == Len(SelectSeq(seq, LAMBDA y : y = x))
OfDate(seq, d) == SelectSeq(seq, LAMBDA y : y.Date = d)
DatesOf(seq) == {seq[i].Date : i \in 1..Len(seq)}
Ascending(seq) == \A i \in 1..(Len(seq) - 1) : seq[i].Date <= seq[i + 1].Date

\* s and t are the same sequence but for the order of elements of equal Date
SameUpToTies(s_, t_) ==
    /\ Len(s_) = Len(t_)
    /\ \A i \in 1..Len(s_) : s_[i].Date = t_[i].Date
    /\ \A i \in 1..Len(s_) : Count(s_, s_[i]) = Count(t_, s_[i])

\* s is t sorted by ascending Date, elements of equal Date in t's order
StableSortOf(s_, t_) ==
    /\ Len(s_) = Len(t_)
    /\ Ascending(s_)
    /\ \A d \in DatesOf(t_) : OfDate(s_, d) = OfDate(t_, d)

(* C8 - Idempotence of merge, as claimed: combineProcessedData([A]) has     *)
(* the matched trades of A and the transaction sequence of A up to the      *)
(* order of equal timestamps.                                               *)
C8_AsClaimed ==
    (Merged /\ Len(dataArray) = 1) =>
        /\ combined.matchedTrades = dataArray[1].matchedTrades
        /\ SameUpToTies(combined.trades, dataArray[1].trades)

(* C8 amended: combineProcessedData([A]) has the matched trades of A, and   *)
(* its transaction sequence is A's sorted by ascending timestamp with equal *)
(* timestamps kept in A's order (A's own sequence is in row order).         *)
C8_Idempotence ==
    (Merged /\ Len(dataArray) = 1) =>
        /\ combined.matchedTrades = dataArray[1].matchedTrades
        /\ StableSortOf(combined.trades, dataArray[1].trades)

\* a batch whose rows are not in ascending order and hold an equal-timestamp
\* pair, merged alone: same matched trades, transactions rearranged
C8_Witness ==
    /\ Merged
    /\ Len(dataArray) = 1
    /\ Len(dataArray[1].matchedTrades) >= 1
    /\ combined.matchedTrades = dataArray[1].matchedTrades
    /\ ~Ascending(dataArray[1].trades)
    /\ combined.trades # dataArray[1].trades
    /\ \E i, j \in 1..Len(dataArray[1].trades) :
          i # j /\ dataArray[1].trades[i].Date = dataArray[1].trades[j].Date

-----------------------------------------------------------------------------
(* An exit in one batch whose entries all lie in other batches, earlier in  *)
(* time: batch j holds the only exit x, every entry is in another batch and *)
(* has a Date before x's.                                                   *)

RowsOf(i) == dataArray[i].trades
IsOnlyExit(j, k) ==
    /\ IsExitRow(RowsOf(j)[k])
    /\ RowsOf(j)[k].Contracts >= 1
    /\ \A i \in 1..Len(dataArray) : \A m \in 1..Len(RowsOf(i)) :
          IF i = j
          THEN m = k
          ELSE /\ IsEntryRow(RowsOf(i)[m])
               /\ RowsOf(i)[m].Contracts >= 1
               /\ RowsOf(i)[m].Ticker = RowsOf(j)[k].Ticker
               /\ RowsOf(i)[m].Date < RowsOf(j)[k].Date
CrossBatch(j, k) == Len(dataArray) >= 2 /\ IsOnlyExit(j, k)

FirstEntryDate == SortByDate(AllTrades(dataArray))[1].Date

IsCrossTrade(m, x) ==
    m.Ticker = x.Ticker /\ m.Exit_Date = x.Date /\ m.Entry_Date = FirstEntryDate

InResult(x) ==
    \E i \in 1..Len(combined.matchedTrades) : IsCrossTrade(combined.matchedTrades[i], x)

\* what the loop of the matcher produces on the merged transactions, before
\* the return statement
ProducedByMerge ==
    RunLoop(variant, EmptyState, SortedWithCost(AllTrades(dataArray)), 1).completed

RematchedUnion == matchTradesFifo(variant, SortByDate(AllTrades(dataArray)))

(* C9 - Multi-file merge, as claimed: the result holds the matched trades   *)
(* of matchTradesFifo on the timestamp-sorted union of the batches'         *)
(* transactions, and an entry in one batch whose exit lies in another batch *)
(* yields a matched trade in the combined result.                           *)
C9_AsClaimed ==
    Merged =>
        /\ combined.matchedTrades = RematchedUnion
        /\ \A j \in 1..Len(dataArray) : \A k \in 1..Len(RowsOf(j)) :
              CrossBatch(j, k) => InResult(RowsOf(j)[k])

(* C9 amended: the result holds the matched trades of matchTradesFifo on    *)
(* the timestamp-sorted union, which no batch's own matched trades contain  *)
(* when the entry and the exit lie in different batches; such an exit is    *)
(* matched against the oldest entry in the combined run, and the trade is   *)
(* in the combined result unless the |ROI| < 10 filter of                   *)
(* utils/processData.ts removes it.                                         *)
C9_MultiFileMerge ==
    Merged =>
        /\ combined.matchedTrades = RematchedUnion
        /\ \A j \in 1..Len(dataArray) : \A k \in 1..Len(RowsOf(j)) :
              CrossBatch(j, k) =>
                  /\ \A i \in 1..Len(dataArray) : dataArray[i].matchedTrades = <<>>
                  /\ Len(ProducedByMerge) >= 1
                  /\ IsCrossTrade(ProducedByMerge[1], RowsOf(j)[k])
                  /\ (variant = "lib" \/ ReasonableROI(ProducedByMerge[1])) =>
                        InResult(RowsOf(j)[k])
                  /\ ~ReasonableROI(ProducedByMerge[1]) =>
                        (InResult(RowsOf(j)[k]) <=> variant = "lib")

\* the entry in the first file, its settlement in the second: no batch has a
\* matched trade of its own, the merge has one
C9_Witness ==
    /\ Merged
    /\ Len(dataArray) = 2
    /\ CrossBatch(2, 1)
    /\ dataArray[1].matchedTrades = <<>>
    /\ dataArray[2].matchedTrades = <<>>
    /\ Len(combined.matchedTrades) = 1
    /\ InResult(RowsOf(2)[1])

-----------------------------------------------------------------------------
(* The completed trades (as indices of completedTrades') that the step at   *)
(* hand took from lot j of ticker t.                                        *)
NewFromLot(t, j) ==
    SelectSeq(Indices(Len(completedTrades')),
              LAMBDA i : /\ i > NumCompleted
                         /\ completedTrades'[i].Ticker = t
                         /\ matchLog'[i].lot = j)

NewContractsFromLot(t, j) ==
    SumInt([k \in 1..Len(NewFromLot(t, j)) |->
               completedTrades'[NewFromLot(t, j)[k]].Contracts])

LotStep(t, j) ==
    LET old == openPositions[t][j]
        new == openPositions'[t][j]
    IN  /\ new.contracts <= old.contracts
        /\ new.contracts >= 0
        /\ old.contracts - new.contracts = NewContractsFromLot(t, j)
        /\ Len(NewFromLot(t, j)) > 0 => (new.is_closed <=> new.contracts = 0)
        /\ Len(NewFromLot(t, j)) = 0 => new.is_closed = old.is_closed
        /\ old.is_closed => (new = old /\ Len(NewFromLot(t, j)) = 0)

C11_Step ==
    Took => \A t \in Tickers : \A j \in 1..Len(openPositions[t]) : LotStep(t, j)

ClosedIffEmpty ==
    \A t \in Tickers : \A j \in 1..Len(openPositions[t]) :
        openPositions[t][j].is_closed <=> openPositions[t][j].contracts = 0

-----------------------------------------------------------------------------
(* PermSpec: matchTradesFifo is called on an array of transactions with     *)
(* pairwise distinct Dates, given in any order, and then called again on    *)
(* the same transactions in any other order.  A call leaves the Trade_Cost  *)
(* it computed in the transaction objects of its argument.                  *)

PermRows(d) ==
    {Entry("A", "Yes", 1, p, d) : p \in MidPrice}
    \cup {Entry("A", "No", 2, p, d) : p \in MidPrice}
    \cup {Settlement("A", "Yes", 2, pr, d) : pr \in ExitProfits}

DistinctDates(trades) ==
    \A i, j \in 1..Len(trades) : i # j => trades[i].Date # trades[j].Date

PermInputs ==
    UNION {{trades \in [1..n -> UNION {PermRows(d) : d \in 1..MaxTrades}] :
               DistinctDates(trades)} : n \in 1..MaxTrades}

Reorderings(trades) ==
    {[i \in 1..Len(trades) |-> trades[p[i]]] :
        p \in {q \in [1..Len(trades) -> 1..Len(trades)] :
                  \A i, j \in 1..Len(trades) : i # j => q[i] # q[j]}}

PermInit ==
    /\ variant \in Variants
    /\ sortedTrades = <<>>
    /\ openPositions = [t \in Tickers |-> <<>>]
    /\ completedTrades = <<>>
    /\ matchLog = <<>>
    /\ lotBorn = [t \in Tickers |-> <<>>]
    /\ pc = "idle"
    /\ returned = <<>>
    /\ dataArray = <<>>
    /\ combined = NoData
    /\ input \in PermInputs
    /\ output = <<>>
    /\ pending = <<>>
    /\ error = <<>>
    /\ uploadedFiles = <<>>
    /\ loading = FALSE
    /\ handlers = <<>>

CallMatcher ==
    /\ Len(output) < MaxCalls
    /\ \E trades \in Reorderings(input) :
          /\ output' = Append(output, matchTradesFifo(variant, trades))
          /\ input' = AfterMatch(trades)
    /\ UNCHANGED <<variant, matcherVars, mergeVars, uploadVars>>

PermNext == CallMatcher

PermSpec == PermInit /\ [][PermNext]_vars

(* C12 - Determinism and self-sorting: all calls of matchTradesFifo on the  *)
(* same transactions (pairwise distinct timestamps), in whatever order they *)
(* are given and whether or not an earlier call has already run on them,    *)
(* return the same matched-trade sequence.                                  *)
C12_Determinism ==
    \A i, j \in 1..Len(output) : output[i] = output[j]

\* two calls, the second on an array that is not in timestamp order, each
\* returning the same two matched trades
C12_Witness ==
    /\ Len(output) = 2
    /\ Len(input) = 3
    /\ input[1].Date > input[2].Date
    /\ Len(output[1]) = 2
    /\ output[2] = output[1]

-----------------------------------------------------------------------------
(* StatsSpec: processCSVData is applied to one file; the statistics are     *)
(* those of its basicStats.  The rows are an entry, a winning and a losing  *)
(* settlement (the losing one pays Realized_Revenue 0) and a winning and a  *)
(* losing market exit, in any order; every row carries a fee.               *)

StatsRows(d) ==
    {Entry("A", "Yes", 1, p, d) : p \in MidPrice}
    \cup {Settlement("A", "Yes", 1, pr, d) : pr \in ExitProfits \cup {Neg(ExitCost(1))}}
    \cup {MarketExit("A", "Yes", 1, p, pr, d) :
              p \in ExitPrices, pr \in ExitProfits \cup {Cents(-20)}}

StatsInputs ==
    UNION {{data \in [1..n -> UNION {StatsRows(d) : d \in 1..MaxTrades}] :
               \A i \in 1..n : data[i].Date = i} : n \in 1..MaxTrades}

StatsInit ==
    /\ variant \in Variants
    /\ sortedTrades = <<>>
    /\ openPositions = [t \in Tickers |-> <<>>]
    /\ completedTrades = <<>>
    /\ matchLog = <<>>
    /\ lotBorn = [t \in Tickers |-> <<>>]
    /\ pc = "idle"
    /\ returned = <<>>
    /\ dataArray = <<>>
    /\ combined = NoData
    /\ input \in StatsInputs
    /\ output = NoData
    /\ pending = <<>>
    /\ error = <<>>
    /\ uploadedFiles = <<>>
    /\ loading = FALSE
    /\ handlers = <<>>

ComputeStats ==
    /\ output = NoData
    /\ output' = processCSVData(variant, input)
    /\ UNCHANGED <<variant, matcherVars, mergeVars, input, uploadVars>>

StatsNext == ComputeStats

StatsSpec == StatsInit /\ [][StatsNext]_vars

HasStats == output # NoData /\ ~Failed(output)

(* C13 - Win-rate boundary: when the matching of a transaction list yields  *)
(* no matched trade, calculateBasicStats returns winRate = 0 (not NaN).     *)
C13_WinRateBoundary ==
    (HasStats /\ Len(output.matchedTrades) = 0) => output.basicStats.winRate = Zero

\* the same boundary, reached in the version that guards the division
C13_Witness ==
    /\ HasStats
    /\ variant = "lib"
    /\ Len(output.matchedTrades) = 0
    /\ output.basicStats.winRate = Zero

LedgerProfit == SumR([i \in 1..Len(input) |-> input[i].Realized_Profit])
LedgerFees == SumR([i \in 1..Len(input) |-> input[i].Fees])

(* C18 - Ledger totals: basicStats.totalProfit is the sum of                *)
(* Realized_Profit over all transactions and basicStats.totalFees the sum   *)
(* of Fees over all transactions, whatever the matcher could match.         *)
C18_LedgerTotals ==
    HasStats =>
        /\ output.basicStats.totalProfit = LedgerProfit
        /\ output.basicStats.totalFees = LedgerFees

\* an unmatched winning exit that still counts with its full profit
C18_Witness ==
    /\ HasStats
    /\ Len(input) = 1
    /\ IsExitRow(input[1])
    /\ Len(output.matchedTrades) = 0
    /\ output.basicStats.totalProfit = Cents(60)
    /\ output.basicStats.totalFees = Cents(2)

ExitRowsOf(trades) == SelectSeq(trades, IsExitRow)
SettlementRowsOf(trades) == SelectSeq(trades, IsSettlementRow)
Winning(trades) == CountPositive(trades, "Realized_Profit")
InUnitInterval(x) == ~IsNaN(x) /\ ~Lt(x, Zero) /\ ~Gt(x, FromInt(1))

(* C19 - Win-rate definition: winRate is the number of exit transactions    *)
(* (settlements, trades with nonzero realized profit) with Realized_Profit  *)
(* > 0 over the number of exit transactions, settledWinRate the same over   *)
(* the settlement transactions; both lie in [0, 1].                         *)
C19_WinRate ==
    HasStats =>
        /\ Len(ExitRowsOf(input)) > 0 =>
              output.basicStats.winRate =
                  Ratio(Winning(ExitRowsOf(input)), Len(ExitRowsOf(input)))
        /\ Len(SettlementRowsOf(input)) > 0 =>
              output.basicStats.settledWinRate =
                  Ratio(Winning(SettlementRowsOf(input)), Len(SettlementRowsOf(input)))
        /\ InUnitInterval(output.basicStats.winRate)
        /\ InUnitInterval(output.basicStats.settledWinRate)

\* one winning and one losing settlement: half of the exits won
C19_Witness ==
    /\ HasStats
    /\ Len(SettlementRowsOf(input)) = 2
    /\ Winning(SettlementRowsOf(input)) = 1
    /\ output.basicStats.settledWinRate = Ratio(1, 2)

-----------------------------------------------------------------------------
UnclosedLotsOf(positions, dir) ==
    SelectSeq(positions, LAMBDA q : ~q.is_closed /\ q.direction = dir)
OpenContractsOf(positions, dir) ==
    SumInt([k \in 1..Len(UnclosedLotsOf(positions, dir)) |->
               UnclosedLotsOf(positions, dir)[k].contracts])

(* C20 - Settlement closes its own side: once a settlement of instrument I  *)
(* and direction D, whose contract count (at least 1) is the total          *)
(* remaining count of I's open lots of direction D, has been processed, no  *)
(* open lot of I with direction D remains, whatever lots I has in the other *)
(* direction.                                                               *)
C20_Step ==
    (Took /\ IsSettlementRow(Taken) /\ Taken.Contracts >= 1
     /\ Taken.Contracts = OpenContractsOf(openPositions[Taken.Ticker], Taken.Direction))
        => Len(UnclosedLotsOf(openPositions'[Taken.Ticker], Taken.Direction)) = 0

OtherDirection(dir) == IF dir = "Yes" THEN "No" ELSE "Yes"
OldestWithContracts(positions) ==
    CHOOSE j \in 1..Len(positions) :
        /\ ~positions[j].is_closed /\ positions[j].contracts >= 1
        /\ \A k \in 1..(j - 1) : positions[k].is_closed \/ positions[k].contracts = 0

(* C20 amended: a settlement closes the oldest open lots of its instrument  *)
(* whatever their direction.  When its contract count (at least 1) is the   *)
(* total remaining count of the open lots of its own direction D, it closes *)
(* exactly that many contracts, starting with the oldest open lot even if   *)
(* that lot is of the other direction, and the contracts left open in the   *)
(* instrument afterwards are as many as the other direction held before;    *)
(* no contract of direction D stays open only if the other direction held   *)
(* none.                                                                    *)
C20_AmendedStep ==
    (Took /\ IsSettlementRow(Taken) /\ Taken.Contracts >= 1
     /\ Taken.Contracts = OpenContractsOf(openPositions[Taken.Ticker], Taken.Direction))
        => LET before == openPositions[Taken.Ticker]
               after == openPositions'[Taken.Ticker]
               own == Taken.Direction
               other == OtherDirection(Taken.Direction)
               first == OldestWithContracts(before)
           IN  /\ NewContracts = Taken.Contracts
               /\ after[first].contracts < before[first].contracts
               /\ OpenContractsOf(after, own) + OpenContractsOf(after, other)
                      = OpenContractsOf(before, other)
               /\ OpenContractsOf(before, other) = 0 => OpenContractsOf(after, own) = 0

-----------------------------------------------------------------------------
(* UploadSpec: one upload event on a freshly mounted CsvUploader            *)
(* (handleFileUpload).  The files of the event are read one after the       *)
(* other; a file that processCSVData rejects adds an entry to the error     *)
(* state, the others are collected and merged at the end.  The handler      *)
(* closes over the uploadedFiles of the render it belongs to, which is      *)
(* empty here, so no file is skipped.  Papa.parse succeeds on every file.   *)

\* parseDate: return new Date() -- the instant of the call, later than every
\* timestamp in a file
FallbackNow == 99

AllColumns ==
    {RequiredColumns[i] : i \in 1..Len(RequiredColumns)}
    \cup {"Realized_Revenue", "Realized_Cost", "Realized_Profit", "Fees"}

CsvFile(name, fields, data) == [name |-> name, fields |-> fields, data |-> data]

\* a row whose Ticker cell is empty
NoTickerRow(d) == Trade("", "trade", "Yes", 1, 30, Zero, Zero, Zero, Zero, d)
\* a row whose Contracts cell is not a number (parseFloat(...) || 0) and whose
\* Created cell does not parse
DegradedRow == Entry("A", "Yes", 0, 30, FallbackNow)

FileCatalogue ==
    {CsvFile("good.csv", AllColumns,
             <<Entry("A", "Yes", 1, 30, 1), Settlement("A", "Yes", 1, Cents(60), 2)>>),
     CsvFile("unmatched.csv", AllColumns, <<Settlement("A", "Yes", 1, Cents(60), 1)>>),
     CsvFile("credits.csv", AllColumns,
             <<Trade("A", "credit", "Yes", 1, 0, Zero, Zero, Zero, Zero, 1)>>),
     CsvFile("noticker.csv", AllColumns, <<NoTickerRow(1)>>),
     CsvFile("degraded.csv", AllColumns, <<DegradedRow>>),
     CsvFile("empty.csv", AllColumns, <<>>),
     CsvFile("nocreated.csv", AllColumns \ {"Created"}, <<Entry("A", "Yes", 1, 30, 1)>>),
     CsvFile("twomissing.csv", AllColumns \ {"Ticker", "Direction"},
             <<Entry("A", "Yes", 1, 30, 1)>>),
     CsvFile("headeronly.csv", AllColumns \ {"Created"}, <<>>)}

Uploads ==
    UNION {{files \in [1..n -> FileCatalogue] :
               \A i, j \in 1..n : i # j => files[i].name # files[j].name}
           : n \in 1..MaxFiles}

UploadInit ==
    /\ variant \in Variants
    /\ sortedTrades = <<>>
    /\ openPositions = [t \in Tickers |-> <<>>]
    /\ completedTrades = <<>>
    /\ matchLog = <<>>
    /\ lotBorn = [t \in Tickers |-> <<>>]
    /\ pc = "idle"
    /\ returned = <<>>
    /\ dataArray = <<>>
    /\ combined = NoData
    /\ input = NoData
    /\ output = NoData
    /\ pending = <<>>
    /\ error = <<>>
    /\ uploadedFiles = <<>>
    /\ loading = FALSE
    /\ handlers = <<>>

\* setLoading(true); setError(''); processedDataArray = []
StartUpload ==
    /\ pc = "idle"
    /\ \E files \in Uploads :
          /\ pending' = files
          /\ input' = files
    /\ pc' = "uploading"
    /\ error' = <<>>
    /\ dataArray' = <<>>
    /\ UNCHANGED <<variant, sortedTrades, openPositions, completedTrades, matchLog,
                   lotBorn, returned, combined, output, uploadedFiles, sessionVars>>

\* try { processed = processCSVData(results); push; setUploadedFiles }
FileProcessed ==
    /\ pc = "uploading"
    /\ Len(pending) > 0
    /\ LET file == Head(pending)
           processed == processCSVResults(variant, file)
       IN  /\ ~Failed(processed)
           /\ dataArray' = Append(dataArray, processed)
           /\ uploadedFiles' = Append(uploadedFiles, file.name)
    /\ pending' = Tail(pending)
    /\ UNCHANGED <<variant, matcherVars, combined, pureVars, error, sessionVars>>

\* catch (err) { setError(prev => prev + `\nError processing ${file.name}: ...`) }
FileRejected ==
    /\ pc = "uploading"
    /\ Len(pending) > 0
    /\ LET file == Head(pending)
           processed == processCSVResults(variant, file)
       IN  /\ Failed(processed)
           /\ error' = Append(error, [file |-> file.name, thrown |-> processed])
    /\ pending' = Tail(pending)
    /\ UNCHANGED <<variant, matcherVars, mergeVars, pureVars, uploadedFiles, sessionVars>>

\* if (processedDataArray.length > 0) setProcessedData(...); setLoading(false)
FinishUpload ==
    /\ pc = "uploading"
    /\ Len(pending) = 0
    /\ pc' = "finished"
    /\ combined' = IF Len(dataArray) = 0 THEN combined
                   ELSE IF Len(dataArray) = 1 THEN dataArray[1]
                   ELSE combineProcessedData(variant, dataArray)
    /\ UNCHANGED <<variant, sortedTrades, openPositions, completedTrades, matchLog,
                   lotBorn, returned, dataArray, pureVars, pending, error, uploadedFiles,
                   sessionVars>>

UploadNext ==
    \/ StartUpload
    \/ FileProcessed
    \/ FileRejected
    \/ FinishUpload

UploadSpec == UploadInit /\ [][UploadNext]_vars

-----------------------------------------------------------------------------
(* Reading an upload: the files read so far, what became of each.           *)

NumRead == Len(input) - Len(pending)
InUpload == pc \in {"uploading", "finished"}
Required == {"Ticker", "Type", "Direction", "Contracts", "Average_Price", "Created"}
HeaderLacks(file) == Required \ file.fields
Accepted(file) == \E k \in 1..Len(uploadedFiles) : uploadedFiles[k] = file.name
ErrorsOf(file) == SelectSeq(error, LAMBDA e : e.file = file.name)
DataOf(file) == dataArray[CHOOSE k \in 1..Len(uploadedFiles) : uploadedFiles[k] = file.name]
NamesColumns(thrown, columns) ==
    /\ "columns" \in DOMAIN thrown
    /\ {thrown.columns[k] : k \in 1..Len(thrown.columns)} = columns
RejectedOnce(file) == ~Accepted(file) /\ Len(ErrorsOf(file)) = 1

\* every file read so far was either accepted or rejected with one error
\* entry, and at the end the data of the accepted files is what is shown
OthersUnaffected ==
    /\ \A i \in 1..NumRead :
          \/ Accepted(input[i]) /\ Len(ErrorsOf(input[i])) = 0
          \/ RejectedOnce(input[i])
    /\ Len(error) + Len(uploadedFiles) = NumRead
    /\ Len(dataArray) = Len(uploadedFiles)
    /\ (pc = "finished" /\ Len(uploadedFiles) > 0) =>
          /\ combined # NoData
          /\ Len(combined.trades) =
                 SumInt([k \in 1..Len(dataArray) |-> Len(dataArray[k].trades)])

(* C15 - Schema error, as claimed: a file whose header lacks a required     *)
(* column is rejected with an error that names exactly the missing          *)
(* columns; every other file of the upload is still processed, the data of  *)
(* the valid files is produced and the error text has one entry for each    *)
(* failed file.                                                             *)
C15_AsClaimed ==
    InUpload =>
        /\ \A i \in 1..NumRead :
              HeaderLacks(input[i]) # {} =>
                  /\ RejectedOnce(input[i])
                  /\ NamesColumns(ErrorsOf(input[i])[1].thrown, HeaderLacks(input[i]))
        /\ OthersUnaffected

(* C15 amended: such a file is always rejected; the error names exactly the *)
(* missing columns when the file has at least one data row, and is "No data *)
(* found" when it has none (that check comes first).  The rest as claimed.  *)
C15_SchemaError ==
    InUpload =>
        /\ \A i \in 1..NumRead :
              HeaderLacks(input[i]) # {} =>
                  /\ RejectedOnce(input[i])
                  /\ IF Len(input[i].data) > 0
                     THEN NamesColumns(ErrorsOf(input[i])[1].thrown, HeaderLacks(input[i]))
                     ELSE ErrorsOf(input[i])[1].thrown =
                              [error |-> "Invalid CSV format: No data found"]
        /\ OthersUnaffected

\* a file without Ticker and Direction was rejected, the error naming the
\* two columns, and the valid file read after it is shown
C15_Witness ==
    /\ pc = "finished"
    /\ Len(input) = 2
    /\ HeaderLacks(input[1]) = {"Ticker", "Direction"}
    /\ Len(error) = 1
    /\ NamesColumns(error[1].thrown, {"Ticker", "Direction"})
    /\ Accepted(input[2])
    /\ combined # NoData
    /\ Len(combined.matchedTrades) = 1

HasValidRow(file) ==
    \E k \in 1..Len(file.data) :
        /\ file.data[k].Ticker # ""
        /\ (variant = "lib" => file.data[k].Type # "credit")

(* C16 - Nothing but a schema error aborts, as claimed: a file whose header *)
(* has all required columns is never rejected, whatever its rows contain.   *)
C16_AsClaimed ==
    InUpload => \A i \in 1..NumRead : HeaderLacks(input[i]) = {} => Accepted(input[i])

(* C16 amended: a file whose header has all required columns is accepted    *)
(* when at least one of its rows has a Ticker (and, in the version of       *)
(* next.config.js, is not a credit row): unmatched exits, unparseable       *)
(* timestamps and non-numeric fields only reduce the output.  It is         *)
(* rejected with "No data found" when it has no rows and with "No valid     *)
(* trades found" when no row is left.                                       *)
C16_OnlyEmptyAborts ==
    InUpload =>
        \A i \in 1..NumRead :
            HeaderLacks(input[i]) = {} =>
                IF HasValidRow(input[i])
                THEN /\ Accepted(input[i])
                     /\ Len(DataOf(input[i]).trades) <= Len(input[i].data)
                     /\ Len(DataOf(input[i]).matchedTrades) <= Len(input[i].data)
                ELSE /\ RejectedOnce(input[i])
                     /\ ErrorsOf(input[i])[1].thrown =
                            IF Len(input[i].data) = 0
                            THEN [error |-> "Invalid CSV format: No data found"]
                            ELSE [error |-> "No valid trades found in the CSV file"]

\* a file with an unmatched exit and a file with a non-numeric count and an
\* unparseable timestamp were both accepted, with no matched trade
C16_Witness ==
    /\ pc = "finished"
    /\ Len(input) = 2
    /\ input[1].name = "unmatched.csv"
    /\ input[2].name = "degraded.csv"
    /\ Accepted(input[1]) /\ Accepted(input[2])
    /\ Len(error) = 0
    /\ Len(combined.trades) = 2
    /\ Len(combined.matchedTrades) = 0

-----------------------------------------------------------------------------
(* calculateRiskMetrics (RiskAdjustedReturns.tsx).  Timestamps are          *)
(* milliseconds; the calendar day of a timestamp is taken in UTC, which is  *)
(* also the local time zone here, so setHours(0, 0, 0, 0) and               *)
(* toISOString().split('T')[0] name the same day.  A square root is kept    *)
(* as its sign and its square: Math.sqrt(x) is [sign |-> 1, square |-> x]   *)
(* for x > 0.                                                               *)

MsPerDay == 24 * 3600 * 1000
DayOf(ms) == ms \div MsPerDay

Signed(sign, square) == [sign |-> sign, square |-> square]
SignedZero == Signed(0, Zero)
SignOf(a) == IF IsNaN(a) THEN 0 ELSE Sgn(a.n)
\* Math.sqrt(x) * Math.sqrt(scale), x >= 0
ScaledRoot(x, scale) == Signed(SignOf(x), Mul(x, FromInt(scale)))

ZeroMetrics(initialCapital) ==
    [totalReturn |-> Zero, standardDeviation |-> SignedZero,
     annualizedSharpe |-> SignedZero, tradingDays |-> 0, avgDailyReturn |-> Zero,
     annualizedReturn |-> Zero, annualizedVolatility |-> SignedZero,
     initialCapital |-> initialCapital]

\* Faulty variant: the comparator is reversed, the latest exit comes first.
RECURSIVE SortByExitDateDescending(_)
SortByExitDateDescending(matched) ==
    IF matched = <<>> THEN <<>>
    ELSE LET n == Len(matched)
             front == SortByExitDateDescending(SubSeq(matched, 1, n - 1))
             last == matched[n]
             keep == SelectSeq(front, LAMBDA t : t.Exit_Date >= last.Exit_Date)
             move == SelectSeq(front, LAMBDA t : t.Exit_Date < last.Exit_Date)
         IN  keep \o <<last>> \o move

\* matchedTrades.sort((a, b) => a.Exit_Date.getTime() - b.Exit_Date.getTime()),
\* in place and stable
RECURSIVE SortByExitDate(_)
SortByExitDate(matched) ==
    IF matched = <<>> THEN <<>>
    ELSE LET n == Len(matched)
             front == SortByExitDate(SubSeq(matched, 1, n - 1))
             last == matched[n]
             keep == SelectSeq(front, LAMBDA t : t.Exit_Date <= last.Exit_Date)
             move == SelectSeq(front, LAMBDA t : t.Exit_Date > last.Exit_Date)
         IN  keep \o <<last>> \o move

MinOf(S) == CHOOSE x \in S : \A y \in S : x <= y
MaxOf(S) == CHOOSE x \in S : \A y \in S : x >= y

\* the forEach over the sorted trades: from the exit day onwards the value
\* of every day of the range is initialCapital + cumulativeProfit
RECURSIVE ApplyExits(_, _, _, _, _)
ApplyExits(values, sorted, k, cumulativeProfit, initialCapital) ==
    IF k > Len(sorted) THEN values
    ELSE LET cum == Add(cumulativeProfit, sorted[k].Realized_Profit)
             from == DayOf(sorted[k].Exit_Date)
         IN  ApplyExits([day \in DOMAIN values |->
                            IF day >= from THEN Add(FromInt(initialCapital), cum)
                            ELSE values[day]],
                        sorted, k + 1, cum, initialCapital)

PortfolioValues(matched, initialCapital) ==
    LET startDay == DayOf(MinOf({matched[i].Entry_Date : i \in 1..Len(matched)}))
        endDay == DayOf(MaxOf({matched[i].Exit_Date : i \in 1..Len(matched)}))
    IN  ApplyExits([day \in startDay..endDay |-> FromInt(initialCapital)],
                   SortByExitDate(matched), 1, Zero, initialCapital)

\* for (i = 1; ...) if (yesterdayValue > 0) dailyReturns.push(...)
RECURSIVE DailyReturnsFrom(_, _, _)
DailyReturnsFrom(values, day, lastDay) ==
    IF day > lastDay THEN <<>>
    ELSE (IF Gt(values[day - 1], Zero)
          THEN <<Div(Sub(values[day], values[day - 1]), values[day - 1])>>
          ELSE <<>>)
         \o DailyReturnsFrom(values, day + 1, lastDay)

DailyReturns(matched, initialCapital) ==
    LET values == PortfolioValues(matched, initialCapital)
    IN  DailyReturnsFrom(values, MinOf(DOMAIN values) + 1, MaxOf(DOMAIN values))

Mean(returns) == Div(SumR(returns), FromInt(Len(returns)))
Variance(returns) ==
    LET avg == Mean(returns)
    IN  Div(SumR([i \in 1..Len(returns) |->
                     Mul(Sub(returns[i], avg), Sub(returns[i], avg))]),
            FromInt(Len(returns)))

\* Faulty variant: the division is not guarded.
SharpeRatioUnguarded(avgDailyReturn, variance) ==
    Signed(SignOf(avgDailyReturn), Div(Mul(avgDailyReturn, avgDailyReturn), variance))

\* standardDeviation !== 0 ? excessReturn / standardDeviation : 0
SharpeRatio(avgDailyReturn, variance) ==
    IF variance # Zero
    THEN Signed(SignOf(avgDailyReturn),
                Div(Mul(avgDailyReturn, avgDailyReturn), variance))
    ELSE SignedZero

calculateRiskMetrics(matched, initialCapital) ==
    IF Len(matched) = 0 \/ initialCapital <= 0 THEN ZeroMetrics(initialCapital)
    ELSE LET values == PortfolioValues(matched, initialCapital)
             dailyReturns == DailyReturns(matched, initialCapital)
             activeDailyReturns ==
                 SelectSeq(dailyReturns, LAMBDA ret : Gt(AbsR(ret), Zero))
         IN  IF Len(activeDailyReturns) = 0 THEN ZeroMetrics(initialCapital)
             ELSE LET avgDailyReturn == Mean(dailyReturns)
                      variance == Variance(dailyReturns)
                      finalValue == values[MaxOf(DOMAIN values)]
                      sharpeRatio == SharpeRatio(avgDailyReturn, variance)
                  IN  [totalReturn |->
                           Div(Sub(finalValue, FromInt(initialCapital)),
                               FromInt(initialCapital)),
                       standardDeviation |-> ScaledRoot(variance, 1),
                       annualizedSharpe |->
                           Signed(sharpeRatio.sign, Mul(sharpeRatio.square, FromInt(252))),
                       tradingDays |-> Len(activeDailyReturns),
                       avgDailyReturn |-> avgDailyReturn,
                       annualizedReturn |-> Mul(avgDailyReturn, FromInt(252)),
                       annualizedVolatility |-> ScaledRoot(variance, 252),
                       initialCapital |-> initialCapital]

-----------------------------------------------------------------------------
(* RiskSpec: a file is processed into the snapshot (processedData), then    *)
(* RiskAdjustedReturns renders: calculateRiskMetrics runs on the snapshot's *)
(* matchedTrades, which it sorts in place.  The transactions of the file    *)
(* fall on the days 1..MaxDate+1, at midnight.                              *)

RiskDays == 1..(MaxDate + 1)
Capitals == {0, 1}
HalfDollar == Cents(50)

\* a lot of two contracts bought at 50 cents, and settlements of one
\* contract: won (profit 0.50) or lost (profit -0.50)
RiskRows ==
    UNION {{Entry("A", "Yes", 2, 50, day * MsPerDay),
            Trade("A", "settlement", "Yes", 1, 0, FromInt(1), HalfDollar, HalfDollar,
                  Zero, day * MsPerDay),
            Trade("A", "settlement", "Yes", 1, 0, Zero, HalfDollar, Neg(HalfDollar),
                  Zero, day * MsPerDay)}
           : day \in RiskDays}

RiskInputs == UNION {[1..n -> RiskRows] : n \in 1..MaxTrades}

RiskInit ==
    /\ variant \in Variants
    /\ sortedTrades = <<>>
    /\ openPositions = [t \in Tickers |-> <<>>]
    /\ completedTrades = <<>>
    /\ matchLog = <<>>
    /\ lotBorn = [t \in Tickers |-> <<>>]
    /\ pc = "idle"
    /\ returned = <<>>
    /\ dataArray = <<>>
    /\ combined = NoData
    /\ input = NoData
    /\ output = NoData
    /\ pending = <<>>
    /\ error = <<>>
    /\ uploadedFiles = <<>>
    /\ loading = FALSE
    /\ handlers = <<>>

\* setProcessedData(processCSVData(results))
LoadSnapshot ==
    /\ pc = "idle"
    /\ \E data \in RiskInputs :
          LET processed == processCSVData(variant, data)
          IN  /\ ~Failed(processed)
              /\ combined' = processed
    /\ pc' = "loaded"
    /\ UNCHANGED <<variant, sortedTrades, openPositions, completedTrades, matchLog,
                   lotBorn, returned, dataArray, pureVars, uploadVars>>

\* const metrics = calculateRiskMetrics(matchedTrades, totalCapital)
RenderRisk ==
    /\ pc = "loaded"
    /\ output = NoData
    /\ \E totalCapital \in Capitals :
          /\ input' = [matchedTrades |-> combined.matchedTrades,
                       initialCapital |-> totalCapital]
          /\ output' = calculateRiskMetrics(combined.matchedTrades, totalCapital)
          /\ combined' =
                 IF Len(combined.matchedTrades) = 0 \/ totalCapital <= 0 THEN combined
                 ELSE [combined EXCEPT !.matchedTrades = SortByExitDate(@)]
    /\ UNCHANGED <<variant, matcherVars, dataArray, uploadVars>>

RiskNext ==
    \/ LoadSnapshot
    \/ RenderRisk

RiskSpec == RiskInit /\ [][RiskNext]_vars

Rendered == pc = "loaded" /\ output # NoData
ReturnsSeen == DailyReturns(input.matchedTrades, input.initialCapital)
Computed == Len(input.matchedTrades) > 0 /\ input.initialCapital > 0
SameDay ==
    \E day \in RiskDays :
        \A i \in 1..Len(input.matchedTrades) :
            /\ DayOf(input.matchedTrades[i].Entry_Date) = day
            /\ DayOf(input.matchedTrades[i].Exit_Date) = day

\* there are no daily returns, or their standard deviation is 0
ZeroVolatility ==
    \/ ~Computed
    \/ Len(ReturnsSeen) = 0
    \/ Variance(ReturnsSeen) = Zero
    \/ SameDay

(* C14 - Zero-volatility guard: calculateRiskMetrics returns                *)
(* annualizedSharpe = 0, not NaN and not infinite, whenever there are no    *)
(* daily returns or their standard deviation is 0, in particular when all   *)
(* matched trades enter and exit on one and the same day.                   *)
C14_ZeroVolatility ==
    Rendered =>
        /\ ZeroVolatility => output.annualizedSharpe = SignedZero
        /\ ~IsNaN(output.annualizedSharpe.square)
        /\ IsFinite(output.annualizedSharpe.square)

\* one nonzero daily return: the mean is not 0, the deviation is, and the
\* ratio is reported as 0
C14_Witness ==
    /\ Rendered
    /\ Computed
    /\ Len(ReturnsSeen) = 1
    /\ ReturnsSeen[1] # Zero
    /\ Variance(ReturnsSeen) = Zero
    /\ output.avgDailyReturn # Zero
    /\ output.tradingDays = 1
    /\ output.annualizedSharpe = SignedZero

-----------------------------------------------------------------------------
(* Fees and basis of the matched trades, read from the history *)

\* the completed trades before i that were taken from the lot of i
EarlierFromLot(i) ==
    SelectSeq(FromLot(completedTrades[i].Ticker, matchLog[i].lot), LAMBDA k : k < i)

\* the completed trades before i that the exit of i produced
EarlierFromExit(i) == SelectSeq(FromExit(matchLog[i].exit), LAMBDA k : k < i)

\* the lot's count and the exit's contracts still to close when completed
\* trade i was made
LotLeftAt(i) == EntryOf(i).Contracts - ContractsOf(EarlierFromLot(i))
ToCloseAt(i) == ExitOf(i).Contracts - ContractsOf(EarlierFromExit(i))

ShareOf(k, n) == Div(FromInt(k), FromInt(n))

(* C22 - Fee pro-rating: for each match the entry-fee share is the lot's    *)
(* entry fee x contracts closed / the lot's count at the start of the step, *)
(* the exit-fee share is the exit's fee x contracts closed / contracts      *)
(* still to close at the start of the step, Net_Profit = profit - (entry    *)
(* share + exit share) and ROI = Net_Profit / entry-cost share.             *)
C22_FeeProRating ==
    \A i \in 1..NumCompleted :
        LET m == completedTrades[i]
            entryShare == Mul(EntryOf(i).Fees, ShareOf(m.Contracts, LotLeftAt(i)))
            exitShare == Mul(ExitOf(i).Fees, ShareOf(m.Contracts, ToCloseAt(i)))
            costShare == Mul(EntryOf(i).Trade_Cost, ShareOf(m.Contracts, LotLeftAt(i)))
        IN  /\ m.Entry_Fee = entryShare
            /\ m.Exit_Fee = exitShare
            /\ m.Net_Profit = Sub(m.Realized_Profit, Add(entryShare, exitShare))
            /\ m.ROI = Div(m.Net_Profit, costShare)

\* an exit of two contracts that closes two lots: its second match is made
\* with one contract still to close
C22_Witness ==
    \E i \in 1..NumCompleted :
        /\ ToCloseAt(i) < ExitOf(i).Contracts
        /\ completedTrades[i].Contracts = 1
        /\ completedTrades[i].Exit_Fee = ExitOf(i).Fees
        /\ completedTrades[i].Exit_Fee # Zero
        /\ IsFinite(completedTrades[i].ROI)

AtMost(a, b) == Lt(a, b) \/ (a = b /\ ~IsNaN(a))
EntryCostOf(idx) == SumR([k \in 1..Len(idx) |-> completedTrades[idx[k]].Entry_Cost])
EntryFeeOf(idx) == SumR([k \in 1..Len(idx) |-> completedTrades[idx[k]].Entry_Fee])
ExitFeeOf(idx) == SumR([k \in 1..Len(idx) |-> completedTrades[idx[k]].Exit_Fee])
LotEntry(t, j) == sortedTrades[lotBorn[t][j]]
FullyClosed(t, j) == ContractsOf(FromLot(t, j)) = LotEntry(t, j).Contracts

(* C23 - Entry basis is conserved over partial closes: for every entry lot  *)
(* the Entry_Cost of the matched trades produced from it sum to at most the *)
(* lot's basis cost and their Entry_Fee to at most the lot's entry fee,     *)
(* exactly so once the lot is fully closed.                                 *)
C23_EntryBasisConserved ==
    \A t \in Tickers : \A j \in 1..Len(lotBorn[t]) :
        Len(FromLot(t, j)) > 0 =>
            /\ AtMost(EntryCostOf(FromLot(t, j)), LotEntry(t, j).Trade_Cost)
            /\ AtMost(EntryFeeOf(FromLot(t, j)), LotEntry(t, j).Fees)
            /\ FullyClosed(t, j) =>
                  /\ EntryCostOf(FromLot(t, j)) = LotEntry(t, j).Trade_Cost
                  /\ EntryFeeOf(FromLot(t, j)) = LotEntry(t, j).Fees

\* a lot of two contracts closed one contract at a time: the first match
\* carries half of the lot's cost and fee, the second all of them
C23_Witness ==
    \E t \in Tickers : \E j \in 1..Len(lotBorn[t]) :
        /\ LotEntry(t, j).Contracts = 2
        /\ Len(FromLot(t, j)) = 2
        /\ FullyClosed(t, j)
        /\ completedTrades[FromLot(t, j)[2]].Entry_Cost = LotEntry(t, j).Trade_Cost
        /\ completedTrades[FromLot(t, j)[2]].Entry_Fee = LotEntry(t, j).Fees
        /\ Gt(EntryCostOf(FromLot(t, j)), LotEntry(t, j).Trade_Cost)
        /\ Gt(EntryFeeOf(FromLot(t, j)), LotEntry(t, j).Fees)

(* C24 - Exit fee is conserved over lots: for every exit transaction the    *)
(* Exit_Fee of the matched trades it produces sum to at most the            *)
(* transaction's Fees, and to exactly its Fees when the exit is fully       *)
(* matched, however many lots it closes.                                    *)
C24_ExitFeeConserved ==
    \A n \in 1..Len(sortedTrades) :
        Len(FromExit(n)) > 0 =>
            /\ AtMost(ExitFeeOf(FromExit(n)), sortedTrades[n].Fees)
            /\ FullyMatched(n) => ExitFeeOf(FromExit(n)) = sortedTrades[n].Fees

\* an exit of two contracts closing two lots of one contract: half of its
\* fee goes to the first match and all of it to the second
C24_Witness ==
    \E n \in 1..Len(sortedTrades) :
        /\ sortedTrades[n].Contracts = 2
        /\ Len(FromExit(n)) = 2
        /\ FullyMatched(n)
        /\ completedTrades[FromExit(n)[2]].Exit_Fee = sortedTrades[n].Fees
        /\ Gt(ExitFeeOf(FromExit(n)), sortedTrades[n].Fees)

(* C27 - Every matched trade the matcher returns closes at least one        *)
(* contract (Contracts >= 1) and has a defined Entry_Cost, for all inputs   *)
(* with integer contract counts >= 0, entries of 0 contracts included.      *)
C27_AtLeastOneContract ==
    Done =>
        \A i \in 1..Len(returned) :
            /\ returned[i].Contracts >= 1
            /\ IsFinite(returned[i].Entry_Cost)

\* an entry of 0 contracts followed by an exit: the returned matched trade
\* closes no contract and its Entry_Cost is NaN
C27_Witness ==
    /\ Done
    /\ \E i \in 1..Len(returned) :
          /\ returned[i].Contracts = 0
          /\ IsNaN(returned[i].Entry_Cost)
          /\ \E n \in 1..Len(sortedTrades) :
                /\ IsEntry(sortedTrades[n])
                /\ sortedTrades[n].Contracts = 0
                /\ sortedTrades[n].Date = returned[i].Entry_Date

-----------------------------------------------------------------------------
(* Timestamps: the rows of a file in any order, equal Dates included        *)

\* the matched-trade sequences the upload has produced so far
MatchedSoFar ==
    [k \in 1..Len(dataArray) |-> dataArray[k].matchedTrades]
    \o (IF combined = NoData THEN <<>> ELSE <<combined.matchedTrades>>)

\* file k is an entry at the mid price and an exit of the same instrument,
\* in rows i and j, the entry not later than the exit
EntryExitPair(k, i, j) ==
    LET trades == dataArray[k].trades
    IN  /\ Len(trades) = 2
        /\ {i, j} = {1, 2}
        /\ IsEntryRow(trades[i])
        /\ trades[i].Average_Price \in MidPrice
        /\ IsExitRow(trades[j])
        /\ trades[i].Ticker = trades[j].Ticker
        /\ trades[i].Date <= trades[j].Date

(* C26 - Equal-timestamp pairs: an exit is matched whenever the input holds *)
(* an entry of its instrument with timestamp <= the exit's and contracts    *)
(* not yet closed; in particular an entry and an exit with the same         *)
(* timestamp are matched whatever their order in the input rows.            *)
C26_EqualTimestamps ==
    \A k \in 1..Len(dataArray) : \A i, j \in 1..2 :
        EntryExitPair(k, i, j) =>
            \E m \in 1..Len(dataArray[k].matchedTrades) :
                /\ dataArray[k].matchedTrades[m].Entry_Date = dataArray[k].trades[i].Date
                /\ dataArray[k].matchedTrades[m].Exit_Date = dataArray[k].trades[j].Date

\* a file whose first row is a settlement and whose second row is the entry
\* at the same timestamp: nothing is matched
C26_Witness ==
    \E k \in 1..Len(dataArray) :
        /\ EntryExitPair(k, 2, 1)
        /\ dataArray[k].trades[1].Date = dataArray[k].trades[2].Date
        /\ Len(dataArray[k].matchedTrades) = 0

(* C28 - Every matched trade has Entry_Date <= Exit_Date and so             *)
(* Holding_Period_Days >= 0: an exit is only matched against lots opened by *)
(* transactions that precede it in timestamp order.                         *)
C28_EntryBeforeExit ==
    \A k \in 1..Len(MatchedSoFar) : \A m \in 1..Len(MatchedSoFar[k]) :
        /\ MatchedSoFar[k][m].Entry_Date <= MatchedSoFar[k][m].Exit_Date
        /\ ~Lt(MatchedSoFar[k][m].Holding_Period_Days, Zero)
        /\ ~IsNaN(MatchedSoFar[k][m].Holding_Period_Days)

\* a file whose first row is the exit and whose second row is the earlier
\* entry: they are matched, with a holding period above 0
C28_Witness ==
    \E k \in 1..Len(dataArray) :
        /\ EntryExitPair(k, 2, 1)
        /\ dataArray[k].trades[2].Date < dataArray[k].trades[1].Date
        /\ Len(dataArray[k].matchedTrades) = 1
        /\ Gt(dataArray[k].matchedTrades[1].Holding_Period_Days, Zero)

-----------------------------------------------------------------------------
\* the entry that opened the lot of completed trade i, found in the lots of
\* the exit's instrument
OpenerOf(i) == sortedTrades[lotBorn[ExitOf(i).Ticker][matchLog[i].lot]]

TickersAgree ==
    \A i \in 1..NumCompleted :
        /\ completedTrades[i].Ticker = ExitOf(i).Ticker
        /\ completedTrades[i].Ticker = OpenerOf(i).Ticker

OtherLotsKept ==
    Took => \A u \in Tickers \ {Taken.Ticker} : openPositions'[u] = openPositions[u]

(* C30 - Instrument isolation: an exit only reduces lots of its own         *)
(* instrument; every matched trade's Ticker is the ticker of its exit       *)
(* transaction and of the entry that opened its lot, and the lots of all    *)
(* other instruments are left as they were by that exit.                    *)
C30_InstrumentIsolation == [][OtherLotsKept /\ TickersAgree']_vars

\* an exit of A has closed a lot of A while a lot of B stays open
C30_Witness ==
    /\ \E i \in 1..NumCompleted :
          completedTrades[i].Ticker = "A" /\ completedTrades[i].Contracts >= 1
    /\ Len(openPositions["B"]) = 1
    /\ ~openPositions["B"][1].is_closed
    /\ openPositions["B"][1].contracts = 1
    /\ lotBorn["B"][1] < matchLog[1].exit

-----------------------------------------------------------------------------
\* the portfolio series calculateRiskMetrics built for the rendered input
ValuesSeen == PortfolioValues(input.matchedTrades, input.initialCapital)
LastDaySeen == MaxOf(DOMAIN ValuesSeen)

\* starting capital + the Realized_Profit of the matched trades exited on or
\* before the day
ExitedBy(day) ==
    SelectSeq(input.matchedTrades, LAMBDA t : DayOf(t.Exit_Date) <= day)
ValueOn(day) ==
    Add(FromInt(input.initialCapital),
        SumR([k \in 1..Len(ExitedBy(day)) |-> ExitedBy(day)[k].Realized_Profit]))

SeriesAsClaimed ==
    /\ DOMAIN ValuesSeen =
          DayOf(MinOf({input.matchedTrades[i].Entry_Date :
                          i \in 1..Len(input.matchedTrades)}))
          .. DayOf(MaxOf({input.matchedTrades[i].Exit_Date :
                            i \in 1..Len(input.matchedTrades)}))
    /\ \A day \in DOMAIN ValuesSeen : ValuesSeen[day] = ValueOn(day)

(* C21 - Portfolio series and total return: for a non-empty matched-trade   *)
(* list and starting capital > 0, each day in [min entry date, max exit     *)
(* date] has the value starting capital + sum of Realized_Profit of the     *)
(* matched trades exited on or before that day, and totalReturn = (value of *)
(* the last day - starting capital) / starting capital.                     *)
C21_PortfolioSeries ==
    (Rendered /\ Computed) =>
        /\ SeriesAsClaimed
        /\ output.totalReturn =
              Div(Sub(ValuesSeen[LastDaySeen], FromInt(input.initialCapital)),
                  FromInt(input.initialCapital))

\* one matched trade entered and exited on the same day with profit 0.50 on
\* a capital of 1: the only day is worth 1.50 and totalReturn is 0
C21_Witness ==
    /\ Rendered
    /\ Computed
    /\ Len(input.matchedTrades) = 1
    /\ SameDay
    /\ ValuesSeen[LastDaySeen] = Add(FromInt(1), HalfDollar)
    /\ output.totalReturn = Zero

-----------------------------------------------------------------------------
(* SessionSpec: the CsvUploader component over several upload events.  A    *)
(* handleFileUpload invocation runs without interruption up to its next     *)
(* await of Papa.parse, so invocations overlap: the file input stays        *)
(* enabled while one is waiting.  An invocation closes over the             *)
(* uploadedFiles of the render it was started from.  "Clear Data" is shown  *)
(* while uploadedFiles is not empty.                                        *)

SessionCatalogue ==
    {f \in FileCatalogue : f.name \in {"good.csv", "unmatched.csv", "nocreated.csv"}}

SessionUploads ==
    UNION {{files \in [1..n -> SessionCatalogue] :
               \A i, j \in 1..n : i # j => files[i].name # files[j].name}
           : n \in 1..MaxFiles}

\* uploadedFiles.includes(name)
Includes(names, name) == \E k \in 1..Len(names) : names[k] = name

\* the index of the next file from i on that is not skipped, Len(files) + 1
\* if there is none
RECURSIVE NextToParse(_, _, _)
NextToParse(files, i, seen) ==
    IF i > Len(files) THEN i
    ELSE IF Includes(seen, files[i].name) THEN NextToParse(files, i + 1, seen)
    ELSE i

\* if (processedDataArray.length > 0) setProcessedData(...)
Shown(processedDataArray) ==
    IF Len(processedDataArray) = 0 THEN combined
    ELSE IF Len(processedDataArray) = 1 THEN processedDataArray[1]
    ELSE combineProcessedData(variant, processedDataArray)

Waiting(h) == handlers[h].pc = "parsing"

SessionInit ==
    /\ variant \in Variants
    /\ sortedTrades = <<>>
    /\ openPositions = [t \in Tickers |-> <<>>]
    /\ completedTrades = <<>>
    /\ matchLog = <<>>
    /\ lotBorn = [t \in Tickers |-> <<>>]
    /\ pc = "idle"
    /\ returned = <<>>
    /\ dataArray = <<>>
    /\ combined = NoData
    /\ input = NoData
    /\ output = NoData
    /\ pending = <<>>
    /\ error = <<>>
    /\ uploadedFiles = <<>>
    /\ loading = FALSE
    /\ handlers = <<>>

\* handleFileUpload from its start to the first await, or to its end when
\* every file is skipped
BeginUpload ==
    /\ Len(handlers) < MaxCalls
    /\ \E files \in SessionUploads :
          LET k == NextToParse(files, 1, uploadedFiles)
          IN  /\ handlers' = Append(handlers,
                     [files |-> files, next |-> k, seen |-> uploadedFiles,
                      processedDataArray |-> <<>>,
                      pc |-> IF k > Len(files) THEN "done" ELSE "parsing"])
              /\ loading' = (k <= Len(files))
    /\ error' = <<>>
    /\ UNCHANGED <<variant, matcherVars, mergeVars, pureVars, pending, uploadedFiles>>

\* Papa.parse completes: the invocation goes on to its next await or its end
ParseDone(h) ==
    /\ Waiting(h)
    /\ \E processed \in
              {processCSVResults(variant, handlers[h].files[handlers[h].next])} :
       \E array \in {IF Failed(processed) THEN handlers[h].processedDataArray
                      ELSE Append(handlers[h].processedDataArray, processed)} :
       \E k \in {NextToParse(handlers[h].files, handlers[h].next + 1,
                               handlers[h].seen)} :
       \E shown \in {IF k > Len(handlers[h].files) THEN Shown(array) ELSE combined} :
          /\ uploadedFiles' =
                 IF Failed(processed) THEN uploadedFiles
                 ELSE Append(uploadedFiles, handlers[h].files[handlers[h].next].name)
          /\ error' =
                 IF Failed(processed)
                 THEN Append(error, [file |-> handlers[h].files[handlers[h].next].name,
                                     thrown |-> processed])
                 ELSE error
          /\ handlers' =
                 [handlers EXCEPT
                     ![h].next = k,
                     ![h].processedDataArray = array,
                     ![h].pc = IF k > Len(handlers[h].files) THEN "done" ELSE "parsing"]
          /\ combined' = shown
          /\ loading' = IF k > Len(handlers[h].files) THEN FALSE ELSE loading
    /\ UNCHANGED <<variant, matcherVars, dataArray, pureVars, pending>>

\* Papa.parse fails: the outer catch and the finally
ParseFailed(h) ==
    /\ Waiting(h)
    /\ error' = Append(error, [file |-> handlers[h].files[handlers[h].next].name,
                                thrown |-> Threw("Error parsing files")])
    /\ handlers' = [handlers EXCEPT ![h].pc = "done"]
    /\ loading' = FALSE
    /\ UNCHANGED <<variant, matcherVars, mergeVars, pureVars, pending, uploadedFiles>>

\* clearData
ClearData ==
    /\ Len(uploadedFiles) > 0
    /\ combined' = NoData
    /\ error' = <<>>
    /\ uploadedFiles' = <<>>
    /\ UNCHANGED <<variant, matcherVars, dataArray, pureVars, pending, sessionVars>>

SessionNext ==
    \/ BeginUpload
    \/ \E h \in 1..Len(handlers) : ParseDone(h)
    \/ \E h \in 1..Len(handlers) : ParseFailed(h)
    \/ ClearData

SessionSpec == SessionInit /\ [][SessionNext]_vars

InFlight == \E h \in 1..Len(handlers) : Waiting(h)

FileNamed(name) == CHOOSE f \in FileCatalogue : f.name = name
ListedData ==
    [k \in 1..Len(uploadedFiles) |-> processCSVResults(variant, FileNamed(uploadedFiles[k]))]
MergeOfListed ==
    IF Len(uploadedFiles) = 0 THEN NoData
    ELSE IF Len(uploadedFiles) = 1 THEN ListedData[1]
    ELSE combineProcessedData(variant, ListedData)

(* C25 - Upload accumulation: with no upload in flight, the processed data  *)
(* shown is the merge of all files listed in uploadedFiles: a later upload  *)
(* adds to the data of the files uploaded before and does not replace it.   *)
C25_UploadAccumulation == ~InFlight => combined = MergeOfListed

\* good.csv was uploaded, then unmatched.csv in a second upload: both are
\* listed and the data shown is that of unmatched.csv alone
C25_Witness ==
    /\ ~InFlight
    /\ Len(handlers) = 2
    /\ handlers[2].seen = <<"good.csv">>
    /\ uploadedFiles = <<"good.csv", "unmatched.csv">>
    /\ combined = processCSVResults(variant, FileNamed("unmatched.csv"))
    /\ Len(combined.trades) = 1

(* C29 - Overlapping uploads: while any handleFileUpload invocation is in   *)
(* progress the loading flag is true; it becomes false only after every     *)
(* started upload has finished.                                             *)
C29_LoadingWhileInFlight == InFlight => loading

\* the first of two overlapping uploads has ended and put loading to false
\* while the second is still waiting for Papa.parse
C29_Witness ==
    /\ Len(handlers) = 2
    /\ handlers[1].pc = "done"
    /\ Len(handlers[1].processedDataArray) = 1
    /\ Waiting(2)
    /\ handlers[2].seen = <<>>
    /\ ~loading

\* an invocation that ends leaves loading = false, and each step of an
\* invocation moves it to a later file or to its end
UploadEndsNotLoading ==
    [][\A h \in 1..Len(handlers) :
          /\ (Waiting(h) /\ handlers'[h].pc = "done") => ~loading'
          /\ handlers'[h] # handlers[h] =>
                /\ Waiting(h)
                /\ handlers'[h].next > handlers[h].next \/ handlers'[h].pc = "done"]_vars
====
